---- MODULE Spec2Model ----
(***************************************************************************)
(* A model of repolink-zip: the GitHub folder-to-ZIP service.              *)
(*                                                                         *)
(*   SpecStrip      the archive-relative path computation (a pure function)*)
(*   SpecOrigin     one GitHubAPI object: cache, rate-limit state, the two *)
(*                  origin operations and their error classification       *)
(*   SpecCache      direct calls of _add_to_cache and _get_from_cache      *)
(*   SpecRateLimit  one rate-limit update from a response's headers        *)
(*   SpecOriginHeaders  SpecOrigin's async calls, headers observed         *)
(*   SpecTasks      the background tasks: submit, execute, status, reaping *)
(*   SpecServer     the tasks beside the cleanup manager the program runs  *)
(*   SpecManager    start() and stop() of the CleanupManager, interleaved  *)
(*                  with its loop tasks                                    *)
(*   SpecCredential the token a request's origin calls are made with       *)
(*   SpecFilename   the archive filename of a requested path               *)
(*   Spec           one build (download_folder_as_zip around               *)
(*                  create_zip_from_folder) as asyncio coroutines and tasks*)
(*   SpecFair       Spec with every enabled step eventually taken          *)
(*   SpecCancel     Spec with a cancellation of the task running the build *)
(*                                                                         *)
(* Strings whose characters matter (paths, entry names) are sequences of   *)
(* one-character strings; messages are sequences of words.                 *)
(***************************************************************************)
EXTENDS Integers, Sequences, FiniteSets, TLC

VARIABLES
    \* ---- SpecStrip
    base_folder,      \* the requested root path
    item_path,        \* item["path"] of one discovered file
    rel_path,         \* the ZIP entry name computed for it
    rel_again,        \* the result of stripping rel_path once more
    strip_pc,         \* "start" | "stripped" | "restripped"
    \* ---- the origin and one GitHubAPI object (SpecOrigin, Spec)
    tree,             \* which repository tree of Trees the origin serves
    async_available,  \* ASYNC_AVAILABLE: whether aiohttp could be imported
    cache,            \* GitHubAPI._cache: key -> entry
    rate_limit_remaining,
    rate_limit_reset,
    clock,            \* time.time(), in seconds since the object was built
    last,             \* the last origin call made on the object, as observed
    \* ---- one build (Spec)
    pc,               \* where download_folder_as_zip / create_zip_from_folder is
    zip_state,        \* the ZipFile: "none" | "open" | "closed"
    zip_entries,      \* the entries appended to it, in order
    count_stack,      \* the frames of _async_count_files, innermost last
    total_files,      \* the total computed before archiving
    ltask,            \* the get_repository_contents call of each directory
    ftask,            \* the _async_process_file task of each file
    aframe,           \* the _async_add_folder_to_zip call of each directory
    build_error,      \* what create_zip_from_folder raised, if it did
    http_status,      \* the status the controller answers with (0: not yet)
    origin_failed,    \* whether any listing or fetch of the build has failed
    progress,         \* the progress reports logged by the build, in order
    cancel_requested, \* whether the task running the build was cancelled
    \* ---- direct calls on the cache (SpecCache)
    written,          \* per key, the last _add_to_cache made on it
    got,              \* the last cache call made, as observed
    \* ---- one rate-limit update (SpecRateLimit)
    rl_obs,           \* the last update: the headers given and the prior state
    \* ---- the background tasks of the controller (SpecTasks)
    task_info,        \* the task_info dict of each task id
    running_tasks,    \* the ids that are keys of running_tasks
    completed_tasks,  \* the ids that are keys of completed_tasks
    file_storage,     \* file_storage: task id -> ZIP bytes
    exec_pc,          \* where each _execute_download_task coroutine is
    submitted,        \* the ids start_background_download has returned
    reaped,           \* the ids cleanup_old_tasks has removed
    build_outcome,    \* per id, what the awaited build returned or raised
    reply,            \* the last status or download request, as observed
    \* ---- the credential of one request (SpecCredential)
    authorization,    \* the Authorization header of the request, if any
    token,            \* its token query parameter, if any
    github_token,     \* os.getenv("GITHUB_TOKEN")
    final_token,      \* the token the route passes to the controller
    sent_authorization, \* headers["Authorization"] of the GitHubAPI object
    cred_pc,          \* "request" | "routed" | "built"
    \* ---- the archive filename (SpecFilename)
    filename,         \* the filename computed for the requested path
    \* ---- the cleanup manager (SpecServer, SpecManager)
    is_running,       \* CleanupManager.is_running
    cleanup_task,     \* CleanupManager._cleanup_task: a loop task, 0 if None
    loops,            \* where each task of _run_cleanup_loop is
    stopping,         \* the loop tasks a suspended stop() is awaiting
    last_call,        \* the start() or stop() called last, as observed
    overlapped        \* a start() has run while a stop() was suspended

stripVars == <<base_folder, item_path, rel_path, rel_again, strip_pc>>
apiVars == <<tree, async_available, cache, rate_limit_remaining,
             rate_limit_reset, clock>>
buildVars == <<pc, zip_state, zip_entries, count_stack, total_files, ltask,
               ftask, aframe, build_error, http_status, origin_failed,
               progress, cancel_requested>>
taskVars == <<task_info, running_tasks, completed_tasks, file_storage,
            exec_pc, submitted, reaped, build_outcome, reply>>
reqVars == <<authorization, token, github_token, final_token,
             sent_authorization, cred_pc, filename>>
mgrVars == <<is_running, cleanup_task, loops, stopping, last_call,
            overlapped>>
restVars == <<taskVars, reqVars, mgrVars>>
sideVars == <<written, got, rl_obs, restVars>>
vars == <<stripVars, apiVars, last, buildVars, sideVars>>

----------------------------------------------------------------------------
(* Bounds *)

\* longest requested root path, in characters
MaxRootLen == 3
\* longest path below the root, in characters
MaxRestLen == 4
\* the clock runs up to MaxClock seconds
MaxClock == 300
\* in SpecTasks the clock advances at most MaxTaskTicks times
MaxTaskTicks == 3
\* longest requested path of SpecFilename, in characters
MaxFolderLen == 4
\* at most MaxLoops tasks of _run_cleanup_loop are created
MaxLoops == 3

----------------------------------------------------------------------------
(* Strings *)

Alphabet == {"a", "b", "/"}

Strings(n) == UNION {[1..k -> Alphabet] : k \in 1..n}

\* a repository path as GitHub reports it: segments separated by single "/"
IsPath(s) ==
    /\ s # <<>>
    /\ s[1] # "/"
    /\ s[Len(s)] # "/"
    /\ \A i \in 1..(Len(s) - 1) : ~(s[i] = "/" /\ s[i + 1] = "/")

Paths(n) == {s \in Strings(n) : IsPath(s)}

\* str.replace(old, ""): every non-overlapping occurrence of old, scanning
\* from the left, is removed
RECURSIVE StrReplaceAll(_, _)
StrReplaceAll(s, old) ==
    IF old = <<>> \/ Len(s) < Len(old) THEN s
    ELSE IF SubSeq(s, 1, Len(old)) = old
         THEN StrReplaceAll(SubSeq(s, Len(old) + 1, Len(s)), old)
         ELSE <<Head(s)>> \o StrReplaceAll(Tail(s), old)

\* str.lstrip("/")
RECURSIVE LStripSlash(_)
LStripSlash(s) ==
    IF s # <<>> /\ Head(s) = "/" THEN LStripSlash(Tail(s)) ELSE s

\* the rel_path computation of _async_add_folder_to_zip and
\* _sync_add_folder_to_zip
RelPath(path, base) ==
    IF base # <<>> THEN LStripSlash(StrReplaceAll(path, base)) ELSE path

\* path with only its leading "base/" removed
WithoutRootPrefix(path, base) ==
    IF base = <<>> THEN path ELSE SubSeq(path, Len(base) + 2, Len(path))

\* Python's "needle in haystack" on strings
Contains(haystack, needle) ==
    \E i \in 0..(Len(haystack) - Len(needle)) :
        SubSeq(haystack, i + 1, i + Len(needle)) = needle

----------------------------------------------------------------------------
(* The origin: repository trees *)

Sub(base, name) == base \o <<"/">> \o name

FileItem(path) == [path |-> path, type |-> "file", download_url |-> path]
DirItem(path) == [path |-> path, type |-> "dir", download_url |-> <<>>]
LinkItem(path) == [path |-> path, type |-> "symlink", download_url |-> <<>>]

R == <<"r">>

\* one file
TreeOneFile ==
    [root |-> R,
     listing |-> (R :> <<FileItem(Sub(R, <<"a">>))>>),
     content |-> (Sub(R, <<"a">>) :> <<"x">>)]

\* an empty directory
TreeEmptyDir ==
    [root |-> R,
     listing |-> (R :> <<DirItem(Sub(R, <<"e">>))>>)
                 @@ (Sub(R, <<"e">>) :> <<>>),
     content |-> <<>>]

\* an empty file and a symlink
TreeEmptyFile ==
    [root |-> R,
     listing |-> (R :> <<FileItem(Sub(R, <<"b">>)), LinkItem(Sub(R, <<"s">>))>>),
     content |-> (Sub(R, <<"b">>) :> <<>>)]

\* three files in one directory, two of them with the same content
TreeFlat ==
    [root |-> R,
     listing |-> (R :> <<FileItem(Sub(R, <<"a">>)), FileItem(Sub(R, <<"b">>)),
                        FileItem(Sub(R, <<"c">>))>>),
     content |-> (Sub(R, <<"a">>) :> <<"x">>) @@ (Sub(R, <<"b">>) :> <<"y">>)
                 @@ (Sub(R, <<"c">>) :> <<"x">>)]

\* a file and two sibling subdirectories
TreeSiblings ==
    [root |-> R,
     listing |-> (R :> <<FileItem(Sub(R, <<"a">>)), DirItem(Sub(R, <<"d">>)),
                        DirItem(Sub(R, <<"e">>))>>)
                 @@ (Sub(R, <<"d">>) :> <<FileItem(Sub(R, <<"d", "/", "a">>))>>)
                 @@ (Sub(R, <<"e">>) :> <<FileItem(Sub(R, <<"e", "/", "b">>))>>),
     content |-> (Sub(R, <<"a">>) :> <<"x">>)
                 @@ (Sub(R, <<"d", "/", "a">>) :> <<"y">>)
                 @@ (Sub(R, <<"e", "/", "b">>) :> <<"z">>)]

\* a root two segments deep ("src/components") over a chain of directories
AB == <<"a", "/", "b">>

TreeDeep ==
    [root |-> AB,
     listing |-> (AB :> <<FileItem(Sub(AB, <<"a">>)), DirItem(Sub(AB, <<"d">>))>>)
                 @@ (Sub(AB, <<"d">>) :>
                        <<FileItem(Sub(AB, <<"d", "/", "b">>)),
                          DirItem(Sub(AB, <<"d", "/", "e">>))>>)
                 @@ (Sub(AB, <<"d", "/", "e">>) :>
                        <<FileItem(Sub(AB, <<"d", "/", "e", "/", "a">>))>>),
     content |-> (Sub(AB, <<"a">>) :> <<"x">>)
                 @@ (Sub(AB, <<"d", "/", "b">>) :> <<"y">>)
                 @@ (Sub(AB, <<"d", "/", "e", "/", "a">>) :> <<"z">>)]

\* a file named like the requested root ("docs/docs")
A == <<"a">>

TreeSameName ==
    [root |-> A,
     listing |-> (A :> <<FileItem(Sub(A, <<"a">>)), FileItem(Sub(A, <<"b">>))>>),
     content |-> (Sub(A, <<"a">>) :> <<"x">>) @@ (Sub(A, <<"b">>) :> <<"y">>)]

\* two files whose names differ by the name of the root ("a/ab", "a/b")
TreeRootInName ==
    [root |-> A,
     listing |-> (A :> <<FileItem(Sub(A, <<"a", "b">>)),
                        FileItem(Sub(A, <<"b">>))>>),
     content |-> (Sub(A, <<"a", "b">>) :> <<"x">>)
                 @@ (Sub(A, <<"b">>) :> <<"y">>)]

Trees == <<TreeOneFile, TreeEmptyDir, TreeEmptyFile, TreeFlat, TreeSiblings,
           TreeDeep, TreeSameName, TreeRootInName>>

\* the trees SpecOrigin makes its calls on
OriginTrees == {1, 2, 3}

\* the trees a build is run on
BuildTrees == DOMAIN Trees

Root == Trees[tree].root
Dirs == DOMAIN Trees[tree].listing
Urls == DOMAIN Trees[tree].content
Listing(path) == Trees[tree].listing[path]
Content(url) == Trees[tree].content[url]

FilesOf(items) == SelectSeq(items, LAMBDA it : it.type = "file")
DirsOf(items) == SelectSeq(items, LAMBDA it : it.type = "dir")

\* the directory whose listing holds the directory p, or the file u
ParentDir(p) ==
    CHOOSE d \in Dirs : \E i \in DOMAIN Listing(d) :
        Listing(d)[i].type = "dir" /\ Listing(d)[i].path = p
FileDir(u) ==
    CHOOSE d \in Dirs : \E i \in DOMAIN Listing(d) :
        Listing(d)[i].type = "file" /\ Listing(d)[i].download_url = u
FilePath(u) ==
    LET d == FileDir(u)
        i == CHOOSE i \in DOMAIN Listing(d) :
                 Listing(d)[i].type = "file" /\ Listing(d)[i].download_url = u
    IN  Listing(d)[i].path

----------------------------------------------------------------------------
(* HTTP responses *)

Absent == [present |-> FALSE, valid |-> TRUE, val |-> 0]
Malformed == [present |-> TRUE, valid |-> FALSE, val |-> 0]
IntHeader(n) == [present |-> TRUE, valid |-> TRUE, val |-> n]

NoMessage == <<>>

Statuses == {200, 201, 401, 403, 404, 500}
RemainingHeaders == {Absent, Malformed, IntHeader(-1), IntHeader(0), IntHeader(1)}
ResetHeaders == {Absent, Malformed, IntHeader(7)}
\* the "message" field of an error body; NoMessage when the body has none
OriginMessages == {NoMessage, <<"Server", "Error">>}

\* Every status comes with every remaining-count header.  A message is
\* varied on a 500 only and the reset header on a 200 and a 403 only: the
\* code reads the message on no other status here, and the rate-limit
\* update does not read the status.

Responses ==
    {r \in [status : Statuses, remaining : RemainingHeaders,
            reset : ResetHeaders, message : OriginMessages] :
        /\ r.message # NoMessage => r.status = 500
        /\ r.reset # Absent => r.status \in {200, 403}}

----------------------------------------------------------------------------
(* GitHubAPI: rate-limit state *)

InitialRemaining == 5000

\* _async_update_rate_limit: the two assignments run in order inside one
\* try; int() of a malformed header raises ValueError, which ends the try
UpdateRateLimit(remaining, reset, resp) ==
    IF resp.remaining.present /\ ~resp.remaining.valid
    THEN [remaining |-> remaining, reset |-> reset]
    ELSE LET r1 == IF resp.remaining.present THEN resp.remaining.val
                   ELSE remaining
         IN  IF resp.reset.present /\ ~resp.reset.valid
             THEN [remaining |-> r1, reset |-> reset]
             ELSE [remaining |-> r1,
                   reset |-> IF resp.reset.present THEN resp.reset.val
                             ELSE reset]

\* _sync_update_rate_limit
SyncUpdateRateLimit(remaining, reset, resp) ==
    IF resp.remaining.present /\ ~resp.remaining.valid
    THEN [remaining |-> remaining, reset |-> reset]
    ELSE LET r1 == IF resp.remaining.present THEN resp.remaining.val
                   ELSE remaining
         IN  IF resp.reset.present /\ ~resp.reset.valid
             THEN [remaining |-> r1, reset |-> reset]
             ELSE [remaining |-> r1,
                   reset |-> IF resp.reset.present THEN resp.reset.val
                             ELSE reset]

----------------------------------------------------------------------------
(* GitHubAPI: error classification.  The code raises bare Exceptions; the  *)
(* kind of an error is the raise statement it comes from, and its message  *)
(* is the text the controller later matches on.                            *)

Raised(kind, msg) == [ok |-> FALSE, kind |-> kind, msg |-> msg]
Success == [ok |-> TRUE, kind |-> "none", msg |-> <<>>]

MsgAuthListing ==
    <<"Authentication", "failed", ".", "Please", "provide", "a", "valid",
      "GitHub", "token", "with", "sufficient", "permissions", ".">>
MsgAuthFile ==
    <<"Authentication", "failed", ".", "Please", "provide", "a", "valid",
      "GitHub", "token", ".">>
MsgRateLimit ==
    <<"GitHub", "API", "rate", "limit", "exceeded", ".", "Resets", "at",
      "<reset_time>">>
MsgPermissionListing ==
    <<"Insufficient", "permissions", ".", "Try", "using", "a", "GitHub",
      "token", "with", "'repo'", "scope", ".">>
MsgPermissionFile ==
    <<"API", "rate", "limit", "exceeded", "or", "insufficient",
      "permissions", ".">>
MsgNotFound ==
    <<"Repository", "or", "path", "not", "found", ".", "Check", "if", "the",
      "repository", "is", "private", "and", "you", "have", "access", "to",
      "it", ".">>
MsgUpstreamListing(message) ==
    <<"Error", "fetching", "repository", "contents", ":">>
        \o (IF message = NoMessage THEN <<"Unknown", "error">> ELSE message)
MsgUpstreamFile == <<"Error", "downloading", "file", ":", "<status>">>

\* a faulty variant: a 403 is never told apart by the remaining count
ListingOutcomeNoRateLimit(status, remaining, message) ==
    IF status = 401 THEN Raised("AuthenticationError", MsgAuthListing)
    ELSE IF status = 403 THEN Raised("PermissionError", MsgPermissionListing)
    ELSE IF status = 404 THEN Raised("NotFoundError", MsgNotFound)
    ELSE IF status # 200
         THEN Raised("UpstreamError", MsgUpstreamListing(message))
    ELSE Success

\* _async_get_repository_contents, after the rate-limit update
ListingOutcome(status, remaining, message) ==
    IF status = 401 THEN Raised("AuthenticationError", MsgAuthListing)
    ELSE IF status = 403
         THEN IF remaining = 0 THEN Raised("RateLimitExceeded", MsgRateLimit)
              ELSE Raised("PermissionError", MsgPermissionListing)
    ELSE IF status = 404 THEN Raised("NotFoundError", MsgNotFound)
    ELSE IF status # 200
         THEN Raised("UpstreamError", MsgUpstreamListing(message))
    ELSE Success

\* _sync_get_repository_contents, after the rate-limit update
SyncListingOutcome(status, remaining, message) ==
    IF status = 401 THEN Raised("AuthenticationError", MsgAuthListing)
    ELSE IF status = 403
         THEN IF remaining = 0 THEN Raised("RateLimitExceeded", MsgRateLimit)
              ELSE Raised("PermissionError", MsgPermissionListing)
    ELSE IF status = 404 THEN Raised("NotFoundError", MsgNotFound)
    ELSE IF status # 200
         THEN Raised("UpstreamError", MsgUpstreamListing(message))
    ELSE Success

\* _async_get_file_content, after the rate-limit update
FileOutcome(status, remaining) ==
    IF status = 401 THEN Raised("AuthenticationError", MsgAuthFile)
    ELSE IF status = 403
         THEN IF remaining = 0 THEN Raised("RateLimitExceeded", MsgRateLimit)
              ELSE Raised("PermissionError", MsgPermissionFile)
    ELSE IF status # 200 THEN Raised("UpstreamError", MsgUpstreamFile)
    ELSE Success

\* _sync_get_file_content, after the rate-limit update
SyncFileOutcome(status, remaining) ==
    IF status = 401 THEN Raised("AuthenticationError", MsgAuthFile)
    ELSE IF status = 403
         THEN IF remaining = 0 THEN Raised("RateLimitExceeded", MsgRateLimit)
              ELSE Raised("PermissionError", MsgPermissionFile)
    ELSE IF status # 200 THEN Raised("UpstreamError", MsgUpstreamFile)
    ELSE Success

----------------------------------------------------------------------------
(* GitHubAPI: the in-memory cache *)

CACHE_TTL_SECONDS == 300

ContentsKey(path) == [op |-> "contents", arg |-> path]
\* a faulty variant: every file is cached under the key of one of them
FileKeyShared(url) == [op |-> "file", arg |-> CHOOSE u \in Urls : TRUE]
FileKey(url) == [op |-> "file", arg |-> url]
CacheKeys == {ContentsKey(p) : p \in Dirs} \cup {FileKey(u) : u \in Urls}

NoEntry == [present |-> FALSE, timestamp |-> 0, data |-> <<>>]
EmptyCache == [k \in CacheKeys |-> NoEntry]

\* a faulty variant: a key that is already held keeps its entry
AddToCacheKeepFirst(c, key, data, now) ==
    IF c[key].present THEN c
    ELSE [c EXCEPT ![key] = [present |-> TRUE, timestamp |-> now, data |-> data]]

\* _add_to_cache
AddToCache(c, key, data, now) ==
    [c EXCEPT ![key] = [present |-> TRUE, timestamp |-> now, data |-> data]]

\* a faulty variant: an entry exactly TTL old still counts as fresh
FreshInclusive(c, key, now) ==
    c[key].present /\ now - c[key].timestamp <= CACHE_TTL_SECONDS

Fresh(c, key, now) ==
    c[key].present /\ now - c[key].timestamp < CACHE_TTL_SECONDS

\* _get_from_cache: the value returned (None is some = FALSE) ...
GetFromCache(c, key, now) ==
    IF Fresh(c, key, now) THEN [some |-> TRUE, data |-> c[key].data]
    ELSE [some |-> FALSE, data |-> <<>>]

\* ... and the cache it leaves: an expired entry is deleted
CacheAfterGet(c, key, now) ==
    IF c[key].present /\ ~Fresh(c, key, now)
    THEN [c EXCEPT ![key] = NoEntry] ELSE c

\* Python truth of a cached value: None, [] and b"" are all false
Truthy(v) == v.some /\ v.data # <<>>

----------------------------------------------------------------------------
(* SpecOrigin: calls made one after another on one GitHubAPI object, each  *)
(* answered by a response drawn from Responses, while the clock advances.  *)

NoCall ==
    [op |-> "none", key |-> ContentsKey(Root), fresh |-> FALSE, held |-> <<>>,
     requests |-> 0, status |-> 0, message |-> NoMessage, outcome |-> Success,
     value |-> <<>>]

\* what a call did: key, whether an unexpired entry existed (and its data),
\* the number of HTTP requests issued, the response's status and message
\* (0 and none without a request), the outcome and the value returned
Call(op, key, resp, requests, outcome, value) ==
    [op |-> op, key |-> key, fresh |-> Fresh(cache, key, clock),
     held |-> IF Fresh(cache, key, clock) THEN cache[key].data ELSE <<>>,
     requests |-> requests, status |-> IF requests = 0 THEN 0 ELSE resp.status,
     message |-> IF requests = 0 THEN NoMessage ELSE resp.message,
     outcome |-> outcome, value |-> value]

\* get_repository_contents(owner, repo, path), with the implementation it
\* dispatches to
GetRepositoryContents(path, resp) ==
    LET key == ContentsKey(path)
        cached == GetFromCache(cache, key, clock)
        c1 == CacheAfterGet(cache, key, clock)
        rl == IF async_available
              THEN UpdateRateLimit(rate_limit_remaining, rate_limit_reset, resp)
              ELSE SyncUpdateRateLimit(rate_limit_remaining, rate_limit_reset, resp)
        out == IF async_available
               THEN ListingOutcome(resp.status, rl.remaining, resp.message)
               ELSE SyncListingOutcome(resp.status, rl.remaining, resp.message)
    IN  IF Truthy(cached)
        THEN /\ cache' = c1
             /\ last' = Call("contents", key, resp, 0, Success, cached.data)
             /\ UNCHANGED <<rate_limit_remaining, rate_limit_reset>>
        ELSE /\ rate_limit_remaining' = rl.remaining
             /\ rate_limit_reset' = rl.reset
             /\ cache' = IF out.ok THEN AddToCache(c1, key, Listing(path), clock)
                         ELSE c1
             /\ last' = Call("contents", key, resp, 1, out,
                             IF out.ok THEN Listing(path) ELSE <<>>)

ListDirectory ==
    \E path \in Dirs, resp \in Responses :
        /\ GetRepositoryContents(path, resp)
        /\ UNCHANGED <<tree, async_available, clock>>

\* the listing call of _sync_count_files and _sync_add_folder_to_zip:
\* _sync_get_repository_contents is called directly
SyncGetRepositoryContents(path, resp) ==
    LET key == ContentsKey(path)
        rl == SyncUpdateRateLimit(rate_limit_remaining, rate_limit_reset, resp)
        out == SyncListingOutcome(resp.status, rl.remaining, resp.message)
    IN  /\ rate_limit_remaining' = rl.remaining
        /\ rate_limit_reset' = rl.reset
        /\ cache' = IF out.ok THEN AddToCache(cache, key, Listing(path), clock)
                    ELSE cache
        /\ last' = Call("sync_contents", key, resp, 1, out,
                        IF out.ok THEN Listing(path) ELSE <<>>)

SyncListDirectory ==
    /\ ~async_available
    /\ \E path \in Dirs, resp \in Responses :
            SyncGetRepositoryContents(path, resp)
    /\ UNCHANGED <<tree, async_available, clock>>

\* the fetch of _async_process_file / _sync_process_file: cache first, else
\* one download, then the cache is filled
FetchFileBytes(url, resp) ==
    LET key == FileKey(url)
        cached == GetFromCache(cache, key, clock)
        c1 == CacheAfterGet(cache, key, clock)
        rl == IF async_available
              THEN UpdateRateLimit(rate_limit_remaining, rate_limit_reset, resp)
              ELSE SyncUpdateRateLimit(rate_limit_remaining, rate_limit_reset, resp)
        out == IF async_available THEN FileOutcome(resp.status, rl.remaining)
               ELSE SyncFileOutcome(resp.status, rl.remaining)
    IN  IF Truthy(cached)
        THEN /\ cache' = c1
             /\ last' = Call("file", key, resp, 0, Success, cached.data)
             /\ UNCHANGED <<rate_limit_remaining, rate_limit_reset>>
        ELSE /\ rate_limit_remaining' = rl.remaining
             /\ rate_limit_reset' = rl.reset
             /\ cache' = IF out.ok THEN AddToCache(c1, key, Content(url), clock)
                         ELSE c1
             /\ last' = Call("file", key, resp, 1, out,
                             IF out.ok THEN Content(url) ELSE <<>>)

FetchFile ==
    \E url \in Urls, resp \in Responses :
        /\ FetchFileBytes(url, resp)
        /\ UNCHANGED <<tree, async_available, clock>>

\* time passes between calls, half a TTL at a time
TickStep == CACHE_TTL_SECONDS \div 2

Tick ==
    /\ clock + TickStep <= MaxClock
    /\ clock' = clock + TickStep
    /\ UNCHANGED <<tree, async_available, cache, rate_limit_remaining,
                   rate_limit_reset, last>>

----------------------------------------------------------------------------
(* SpecCache: _add_to_cache and _get_from_cache called directly, in any    *)
(* order and on any key, while the clock advances.                         *)

\* the values stored: a falsy one and two others
CacheValues == {<<>>, <<"x">>, <<"y">>}

NoWrite == [some |-> FALSE, data |-> <<>>, at |-> 0, n |-> 0]

NoGet ==
    [op |-> "none", key |-> ContentsKey(Root), at |-> 0, held |-> FALSE,
     value |-> [some |-> FALSE, data |-> <<>>]]

\* self._add_to_cache(key, data); written keeps the value, the time and
\* whether the key was written before (n = 2: more than once)
CachePut(key, data) ==
    /\ cache' = AddToCache(cache, key, data, clock)
    /\ written' = [written EXCEPT ![key] =
                      [some |-> TRUE, data |-> data, at |-> clock,
                       n |-> IF written[key].n = 0 THEN 1 ELSE 2]]
    /\ got' = [op |-> "put", key |-> key, at |-> clock,
               held |-> cache[key].present,
               value |-> [some |-> FALSE, data |-> <<>>]]
    /\ UNCHANGED <<tree, async_available, rate_limit_remaining,
                   rate_limit_reset, clock, rl_obs>>

\* self._get_from_cache(key); got keeps what was returned and whether the
\* dict held the key when the call was made
CacheGet(key) ==
    /\ cache' = CacheAfterGet(cache, key, clock)
    /\ got' = [op |-> "get", key |-> key, at |-> clock,
               held |-> cache[key].present,
               value |-> GetFromCache(cache, key, clock)]
    /\ UNCHANGED <<tree, async_available, rate_limit_remaining,
                   rate_limit_reset, clock, written, rl_obs>>

----------------------------------------------------------------------------
(* SpecRateLimit: _async_update_rate_limit / _sync_update_rate_limit       *)
(* applied to responses with any pair of rate-limit headers.               *)

NoUpdate ==
    [op |-> "none", remaining_header |-> Absent, reset_header |-> Absent,
     prior_remaining |-> 0, prior_reset |-> 0, raised |-> FALSE]

RateLimitResponses ==
    [status : {200}, remaining : RemainingHeaders, reset : ResetHeaders,
     message : {NoMessage}]

\* await self._async_update_rate_limit(response): the except clause of
\* lines 249-250 catches what int() raises, so nothing leaves the call
AsyncUpdate(resp) ==
    LET rl == UpdateRateLimit(rate_limit_remaining, rate_limit_reset, resp)
    IN  /\ rate_limit_remaining' = rl.remaining
        /\ rate_limit_reset' = rl.reset
        /\ rl_obs' = [op |-> "async", remaining_header |-> resp.remaining,
                      reset_header |-> resp.reset,
                      prior_remaining |-> rate_limit_remaining,
                      prior_reset |-> rate_limit_reset, raised |-> FALSE]
        /\ UNCHANGED <<tree, async_available, cache, clock, written, got>>

\* self._sync_update_rate_limit(response)
SyncUpdate(resp) ==
    LET rl == SyncUpdateRateLimit(rate_limit_remaining, rate_limit_reset, resp)
    IN  /\ rate_limit_remaining' = rl.remaining
        /\ rate_limit_reset' = rl.reset
        /\ rl_obs' = [op |-> "sync", remaining_header |-> resp.remaining,
                      reset_header |-> resp.reset,
                      prior_remaining |-> rate_limit_remaining,
                      prior_reset |-> rate_limit_reset, raised |-> FALSE]
        /\ UNCHANGED <<tree, async_available, cache, clock, written, got>>

----------------------------------------------------------------------------
(* SpecOriginHeaders: the async calls of SpecOrigin on one tree, with the  *)
(* rate-limit headers of each response kept beside the call.               *)

ObserveHeaders(resp) ==
    rl_obs' = [op |-> "call", remaining_header |-> resp.remaining,
               reset_header |-> resp.reset]

ListDirectoryObserved ==
    \E path \in Dirs, resp \in Responses :
        /\ GetRepositoryContents(path, resp)
        /\ ObserveHeaders(resp)
        /\ UNCHANGED <<tree, async_available, clock, written, got>>

FetchFileObserved ==
    \E url \in Urls, resp \in Responses :
        /\ FetchFileBytes(url, resp)
        /\ ObserveHeaders(resp)
        /\ UNCHANGED <<tree, async_available, clock, written, got>>

----------------------------------------------------------------------------
(* SpecStrip: the root and one file path under it are drawn from bounded   *)
(* sets; the code's stripping step is applied, then applied again.         *)

StripRoots == {<<>>} \cup Paths(MaxRootLen)

PathsUnder(base) ==
    {IF base = <<>> THEN r ELSE base \o <<"/">> \o r : r \in Paths(MaxRestLen)}

StripOnce ==
    /\ strip_pc = "start"
    /\ rel_path' = RelPath(item_path, base_folder)
    /\ strip_pc' = "stripped"
    /\ UNCHANGED <<base_folder, item_path, rel_again>>

StripAgain ==
    /\ strip_pc = "stripped"
    /\ rel_again' = RelPath(rel_path, base_folder)
    /\ strip_pc' = "restripped"
    /\ UNCHANGED <<base_folder, item_path, rel_path>>

----------------------------------------------------------------------------
(* One build: download_folder_as_zip awaiting create_zip_from_folder, as   *)
(* coroutines and tasks on one asyncio event loop.  An action is what one  *)
(* coroutine does between two suspension points; the tasks of a gather     *)
(* run interleaved, and a gather hands its first exception to the          *)
(* awaiting coroutine while the other tasks keep running.                  *)

NoListingTask == [st |-> "none", by |-> "none", result |-> <<>>, err |-> Success]
NoFileTask == [st |-> "none", rel_path |-> <<>>, data |-> <<>>, err |-> Success]
NoFrame == [st |-> "none", processed |-> 0, gerr |-> Success]

\* the responses a build's requests are answered with
BuildResponses ==
    {r \in Responses :
        /\ r.status \in {200, 401, 403, 404, 500}
        /\ r.remaining \in {Absent, IntHeader(0)}
        /\ r.reset = Absent
        /\ r.message = NoMessage}

IndexError == Raised("IndexError", <<"string", "index", "out", "of", "range">>)
ZipClosedError ==
    Raised("ValueError",
           <<"Attempt", "to", "use", "ZIP", "archive", "that", "was",
             "already", "closed">>)

\* the file tasks that are inside zip_file.writestr
Appending == {u \in Urls : ftask[u].st = "appending"}

\* a faulty variant: the append runs off the event loop, beside the other coroutines
LoopIdleAlways == TRUE

\* _async_process_file has no await between the end of the fetch and the end
\* of writestr: while a task is there, the event loop runs nothing else
LoopIdle == Appending = {}

BuildOver == pc \in {"returned", "raised", "responded"}

\* the first step of a get_repository_contents call: the cache, else a request
StartedListing(path, by) ==
    LET cached == GetFromCache(cache, ContentsKey(path), clock)
    IN  IF Truthy(cached)
        THEN [st |-> "done", by |-> by, result |-> cached.data, err |-> Success]
        ELSE [st |-> "waiting", by |-> by, result |-> <<>>, err |-> Success]

\* create_zip_from_folder up to its first await
BuildStart ==
    /\ pc = "init"
    /\ LoopIdle
    /\ ltask' = [ltask EXCEPT ![Root] = StartedListing(Root, "main")]
    /\ cache' = CacheAfterGet(cache, ContentsKey(Root), clock)
    /\ pc' = "root_listing"
    /\ UNCHANGED <<tree, async_available, rate_limit_remaining,
                   rate_limit_reset, clock, zip_state, zip_entries,
                   count_stack, total_files, ftask, aframe, build_error,
                   http_status, origin_failed>>

CountFrame(dir) ==
    [dir |-> dir, count |-> 0, i |-> 1, j |-> 1, st |-> "enter",
     gerr |-> Success]

\* the root listing is answered (or came from the cache): on success the
\* ZipFile is opened and _async_count_files is entered
RootListed(resp) ==
    /\ pc = "root_listing"
    /\ LoopIdle
    /\ IF ltask[Root].st = "done"
       THEN /\ pc' = "counting"
            /\ zip_state' = "open"
            /\ count_stack' = <<CountFrame(Root)>>
            /\ UNCHANGED <<cache, rate_limit_remaining, rate_limit_reset,
                           ltask, build_error, origin_failed>>
       ELSE LET rl == UpdateRateLimit(rate_limit_remaining, rate_limit_reset, resp)
                out == ListingOutcome(resp.status, rl.remaining, resp.message)
            IN  /\ rate_limit_remaining' = rl.remaining
                /\ rate_limit_reset' = rl.reset
                /\ IF out.ok
                   THEN /\ cache' = AddToCache(cache, ContentsKey(Root),
                                               Listing(Root), clock)
                        /\ ltask' = [ltask EXCEPT ![Root].st = "done",
                                                  ![Root].result = Listing(Root)]
                        /\ pc' = "counting"
                        /\ zip_state' = "open"
                        /\ count_stack' = <<CountFrame(Root)>>
                        /\ UNCHANGED <<build_error, origin_failed>>
                   ELSE /\ ltask' = [ltask EXCEPT ![Root].st = "failed",
                                                  ![Root].err = out]
                        /\ pc' = "raised"
                        /\ build_error' = out
                        /\ origin_failed' = TRUE
                        /\ UNCHANGED <<cache, zip_state, count_stack>>
    /\ UNCHANGED <<tree, async_available, clock, zip_entries, total_files,
                   ftask, aframe, http_status>>

----------------------------------------------------------------------------
(* _async_count_files.  The frames run one after another: a frame awaits   *)
(* the gather of its subdirectories' listings, then awaits each recursive  *)
(* call directly.                                                          *)

Top == count_stack[Len(count_stack)]
SetTop(f) == [count_stack EXCEPT ![Len(count_stack)] = f]
Items(dir) == ltask[dir].result
SubdirPaths(dir) == [i \in DOMAIN DirsOf(Items(dir)) |-> DirsOf(Items(dir))[i].path]
SubdirSet(dir) == {SubdirPaths(dir)[i] : i \in DOMAIN SubdirPaths(dir)}

\* lines 143-155: the files are counted, a listing is started per directory
CountEnter ==
    /\ pc = "counting"
    /\ LoopIdle
    /\ Top.st = "enter"
    /\ LET files == Len(FilesOf(Items(Top.dir)))
           subs == SubdirSet(Top.dir)
       IN  IF subs = {}
           THEN /\ count_stack' = SetTop([Top EXCEPT !.count = files,
                                                     !.st = "done"])
                /\ UNCHANGED ltask
           ELSE /\ count_stack' = SetTop([Top EXCEPT !.count = files,
                                                     !.st = "gather"])
                /\ ltask' = [d \in Dirs |->
                                IF d \in subs
                                THEN [NoListingTask EXCEPT !.st = "new",
                                                           !.by = "count"]
                                ELSE ltask[d]]
    /\ UNCHANGED <<apiVars, pc, zip_state, zip_entries, total_files, ftask,
                   aframe, build_error, http_status, origin_failed>>

\* line 155 returns: every listing of the gather is there
CountGathered ==
    /\ pc = "counting"
    /\ LoopIdle
    /\ Top.st = "gather"
    /\ Top.gerr.ok
    /\ \A d \in SubdirSet(Top.dir) : ltask[d].st = "done"
    /\ count_stack' = SetTop([Top EXCEPT !.st = "loop"])
    /\ UNCHANGED <<apiVars, pc, zip_state, zip_entries, total_files, ltask,
                   ftask, aframe, build_error, http_status, origin_failed>>

\* line 158: the recursive call for the inner loop's directory
CountCall ==
    /\ pc = "counting"
    /\ LoopIdle
    /\ Top.st = "loop"
    /\ count_stack' = Append(count_stack, CountFrame(SubdirPaths(Top.dir)[Top.j]))
    /\ UNCHANGED <<apiVars, pc, zip_state, zip_entries, total_files, ltask,
                   ftask, aframe, build_error, http_status, origin_failed>>

\* lines 156-159: "for subdir_contents in results" around the loop over the
\* subdirectories; the caller's frame after a recursive call returned
CountLoopAdvance(f, subcount) ==
    LET k == Len(SubdirPaths(f.dir))
    IN  IF f.j < k THEN [f EXCEPT !.count = @ + subcount, !.j = @ + 1]
        ELSE IF f.i < k
             THEN [f EXCEPT !.count = @ + subcount, !.i = @ + 1, !.j = 1]
             ELSE [f EXCEPT !.count = @ + subcount, !.st = "done"]

\* line 161, for a recursive call
CountReturn ==
    /\ pc = "counting"
    /\ LoopIdle
    /\ Top.st = "done"
    /\ Len(count_stack) > 1
    /\ LET caller == count_stack[Len(count_stack) - 1]
           rest == SubSeq(count_stack, 1, Len(count_stack) - 2)
       IN  count_stack' = Append(rest, CountLoopAdvance(caller, Top.count))
    /\ UNCHANGED <<apiVars, pc, zip_state, zip_entries, total_files, ltask,
                   ftask, aframe, build_error, http_status, origin_failed>>

\* line 161, for the call of create_zip_from_folder, which goes on to
\* _async_add_folder_to_zip
CountFinish ==
    /\ pc = "counting"
    /\ LoopIdle
    /\ Top.st = "done"
    /\ Len(count_stack) = 1
    /\ total_files' = Top.count
    /\ count_stack' = <<>>
    /\ pc' = "adding"
    /\ aframe' = [aframe EXCEPT ![Root].st = "new"]
    /\ UNCHANGED <<apiVars, zip_state, zip_entries, ltask, ftask, build_error,
                   http_status, origin_failed>>

\* the gather of line 155 raises: the exception passes through every frame
\* and through the with block, which closes the ZipFile
CountFailed ==
    /\ pc = "counting"
    /\ LoopIdle
    /\ Top.st = "gather"
    /\ ~Top.gerr.ok
    /\ pc' = "raised"
    /\ build_error' = Top.gerr
    /\ zip_state' = "closed"
    /\ count_stack' = <<>>
    /\ UNCHANGED <<apiVars, zip_entries, total_files, ltask, ftask, aframe,
                   http_status, origin_failed>>

----------------------------------------------------------------------------
(* The get_repository_contents tasks of a gather *)

\* a failed listing reaches the gather that awaits it, which keeps the
\* first exception it is given
CountStackNotified(p, out) ==
    IF /\ pc = "counting"
       /\ count_stack # <<>>
       /\ Top.st = "gather"
       /\ p \in SubdirSet(Top.dir)
       /\ Top.gerr.ok
    THEN SetTop([Top EXCEPT !.gerr = out])
    ELSE count_stack

FrameNotified(frames, d, out) ==
    IF frames[d].gerr.ok THEN [frames EXCEPT ![d].gerr = out] ELSE frames

\* the task's first step (lines 49-52, then the request of line 65)
ListingStart(p) ==
    /\ ltask[p].st = "new"
    /\ LoopIdle
    /\ ltask' = [ltask EXCEPT ![p] = StartedListing(p, ltask[p].by)]
    /\ cache' = CacheAfterGet(cache, ContentsKey(p), clock)
    /\ UNCHANGED <<tree, async_available, rate_limit_remaining,
                   rate_limit_reset, clock, pc, zip_state, zip_entries,
                   count_stack, total_files, ftask, aframe, build_error,
                   http_status, origin_failed>>

\* the response arrives (lines 66-85)
ListingResponse(p, resp) ==
    /\ p # Root
    /\ ltask[p].st = "waiting"
    /\ LoopIdle
    /\ LET rl == UpdateRateLimit(rate_limit_remaining, rate_limit_reset, resp)
           out == ListingOutcome(resp.status, rl.remaining, resp.message)
       IN  /\ rate_limit_remaining' = rl.remaining
           /\ rate_limit_reset' = rl.reset
           /\ IF out.ok
              THEN /\ cache' = AddToCache(cache, ContentsKey(p), Listing(p), clock)
                   /\ ltask' = [ltask EXCEPT ![p].st = "done",
                                             ![p].result = Listing(p)]
                   /\ UNCHANGED <<count_stack, aframe, origin_failed>>
              ELSE /\ ltask' = [ltask EXCEPT ![p].st = "failed", ![p].err = out]
                   /\ origin_failed' = TRUE
                   /\ count_stack' = IF ltask[p].by = "count"
                                     THEN CountStackNotified(p, out)
                                     ELSE count_stack
                   /\ aframe' = IF ltask[p].by = "add"
                                THEN FrameNotified(aframe, ParentDir(p), out)
                                ELSE aframe
                   /\ UNCHANGED cache
    /\ UNCHANGED <<tree, async_available, clock, pc, zip_state, zip_entries,
                   total_files, ftask, build_error, http_status>>

----------------------------------------------------------------------------
(* _async_add_folder_to_zip, one call per directory, and the               *)
(* _async_process_file tasks it gathers                                    *)

FileSet(dir) ==
    {FilesOf(Items(dir))[i].download_url : i \in DOMAIN FilesOf(Items(dir))}

ItemOfUrl(dir, u) ==
    LET files == FilesOf(Items(dir))
    IN  files[CHOOSE i \in DOMAIN files : files[i].download_url = u]

\* a faulty variant: a subdirectory's failure is dropped by its parent
FinishedSwallowing(d, frames, out) ==
    IF d = Root
    THEN /\ aframe' = frames
         /\ pc' = IF out.ok THEN "returned" ELSE "raised"
         /\ zip_state' = "closed"
         /\ build_error' = out
    ELSE /\ aframe' = [frames EXCEPT ![d].st = "done"]
         /\ UNCHANGED <<pc, zip_state, build_error>>

\* the call returns or raises: create_zip_from_folder awaits the root's call
\* directly (the with block closes the ZipFile either way); any other call
\* is a task of its parent's gather
Finished(d, frames, out) ==
    IF d = Root
    THEN /\ aframe' = frames
         /\ pc' = IF out.ok THEN "returned" ELSE "raised"
         /\ zip_state' = "closed"
         /\ build_error' = out
    ELSE /\ aframe' = IF out.ok THEN frames
                      ELSE FrameNotified(frames, ParentDir(d), out)
         /\ UNCHANGED <<pc, zip_state, build_error>>

ListingTasksFor(d) ==
    [p \in Dirs |-> IF p \in SubdirSet(d)
                    THEN [NoListingTask EXCEPT !.st = "new", !.by = "add"]
                    ELSE ltask[p]]

\* lines 166-187 / 194: rel_path per item, a task per file, a coroutine per
\* directory; the files are gathered first
AddEnter(d) ==
    /\ aframe[d].st = "new"
    /\ LoopIdle
    /\ IF FileSet(d) # {}
       THEN /\ ftask' = [u \in Urls |->
                            IF u \in FileSet(d)
                            THEN [NoFileTask EXCEPT
                                    !.st = "new",
                                    !.rel_path = RelPath(ItemOfUrl(d, u).path, Root)]
                            ELSE ftask[u]]
            /\ aframe' = [aframe EXCEPT ![d].st = "files"]
            /\ UNCHANGED <<ltask, pc, zip_state, build_error>>
       ELSE IF SubdirSet(d) # {}
            THEN /\ ltask' = ListingTasksFor(d)
                 /\ aframe' = [aframe EXCEPT ![d].st = "listings"]
                 /\ UNCHANGED <<ftask, pc, zip_state, build_error>>
            ELSE /\ Finished(d, [aframe EXCEPT ![d].st = "done"], Success)
                 /\ UNCHANGED <<ftask, ltask>>
    /\ UNCHANGED <<apiVars, zip_entries, count_stack, total_files,
                   http_status, origin_failed>>

\* the "Progress: processed/total" line of lines 189-190, with the number
\* of entries the archive holds when it is logged
Reported(processed) ==
    IF total_files > 0
    THEN Append(progress, [processed |-> processed, total |-> total_files,
                           appended |-> Len(zip_entries)])
    ELSE progress

\* line 187 returns: lines 188-194
AddFilesDone(d) ==
    /\ aframe[d].st = "files"
    /\ LoopIdle
    /\ aframe[d].gerr.ok
    /\ \A u \in FileSet(d) : ftask[u].st = "done"
    /\ progress' = Reported(aframe[d].processed + Cardinality(FileSet(d)))
    /\ LET counted == [aframe EXCEPT
                          ![d].processed = @ + Cardinality(FileSet(d))]
       IN  IF SubdirSet(d) # {}
           THEN /\ ltask' = ListingTasksFor(d)
                /\ aframe' = [counted EXCEPT ![d].st = "listings"]
                /\ UNCHANGED <<pc, zip_state, build_error>>
           ELSE /\ Finished(d, [counted EXCEPT ![d].st = "done"], Success)
                /\ UNCHANGED ltask
    /\ UNCHANGED <<apiVars, zip_entries, count_stack, total_files, ftask,
                   http_status, origin_failed>>

\* line 194 returns: lines 195-210, a task per subdirectory
AddListingsDone(d) ==
    /\ aframe[d].st = "listings"
    /\ LoopIdle
    /\ aframe[d].gerr.ok
    /\ \A p \in SubdirSet(d) : ltask[p].st = "done"
    /\ aframe' = [p \in Dirs |->
                    IF p = d THEN [aframe[d] EXCEPT !.st = "subfolders"]
                    ELSE IF p \in SubdirSet(d)
                         THEN [NoFrame EXCEPT !.st = "new",
                                              !.processed = aframe[d].processed]
                         ELSE aframe[p]]
    /\ UNCHANGED <<apiVars, pc, zip_state, zip_entries, count_stack,
                   total_files, ltask, ftask, build_error, http_status,
                   origin_failed>>

\* line 210 returns
AddSubfoldersDone(d) ==
    /\ aframe[d].st = "subfolders"
    /\ LoopIdle
    /\ aframe[d].gerr.ok
    /\ \A p \in SubdirSet(d) : aframe[p].st = "done"
    /\ Finished(d, [aframe EXCEPT ![d].st = "done"], Success)
    /\ UNCHANGED <<apiVars, zip_entries, count_stack, total_files, ltask,
                   ftask, http_status, origin_failed>>

\* one of the three gathers raises
AddGatherFailed(d) ==
    /\ aframe[d].st \in {"files", "listings", "subfolders"}
    /\ LoopIdle
    /\ ~aframe[d].gerr.ok
    /\ Finished(d, [aframe EXCEPT ![d].st = "failed"], aframe[d].gerr)
    /\ UNCHANGED <<apiVars, zip_entries, count_stack, total_files, ltask,
                   ftask, http_status, origin_failed>>

\* _async_process_file up to its await (lines 215-219); a cached content
\* goes straight to writestr
FileStart(u) ==
    /\ ftask[u].st = "new"
    /\ LoopIdle
    /\ LET cached == GetFromCache(cache, FileKey(u), clock)
       IN  /\ ftask' = IF Truthy(cached)
                       THEN [ftask EXCEPT ![u].st = "appending",
                                          ![u].data = cached.data]
                       ELSE [ftask EXCEPT ![u].st = "waiting"]
           /\ cache' = CacheAfterGet(cache, FileKey(u), clock)
    /\ UNCHANGED <<tree, async_available, rate_limit_remaining,
                   rate_limit_reset, clock, pc, zip_state, zip_entries,
                   count_stack, total_files, ltask, aframe, build_error,
                   http_status, origin_failed>>

\* the download is answered (lines 230-242, then 221): the task is at
\* writestr, or has raised
FileResponse(u, resp) ==
    /\ ftask[u].st = "waiting"
    /\ LoopIdle
    /\ LET rl == UpdateRateLimit(rate_limit_remaining, rate_limit_reset, resp)
           out == FileOutcome(resp.status, rl.remaining)
       IN  /\ rate_limit_remaining' = rl.remaining
           /\ rate_limit_reset' = rl.reset
           /\ IF out.ok
              THEN /\ cache' = AddToCache(cache, FileKey(u), Content(u), clock)
                   /\ ftask' = [ftask EXCEPT ![u].st = "appending",
                                             ![u].data = Content(u)]
                   /\ UNCHANGED <<aframe, origin_failed>>
              ELSE /\ ftask' = [ftask EXCEPT ![u].st = "failed", ![u].err = out]
                   /\ aframe' = FrameNotified(aframe, FileDir(u), out)
                   /\ origin_failed' = TRUE
                   /\ UNCHANGED cache
    /\ UNCHANGED <<tree, async_available, clock, pc, zip_state, zip_entries,
                   count_stack, total_files, ltask, build_error, http_status>>

\* zip_file.writestr(rel_path, file_content) (line 224): ZipFile.writestr
\* reads the last character of the name, then refuses a closed archive
FileAppend(u) ==
    /\ ftask[u].st = "appending"
    /\ IF ftask[u].rel_path = <<>>
       THEN /\ ftask' = [ftask EXCEPT ![u].st = "failed", ![u].err = IndexError]
            /\ aframe' = FrameNotified(aframe, FileDir(u), IndexError)
            /\ UNCHANGED zip_entries
       ELSE IF zip_state = "closed"
            THEN /\ ftask' = [ftask EXCEPT ![u].st = "failed",
                                           ![u].err = ZipClosedError]
                 /\ aframe' = FrameNotified(aframe, FileDir(u), ZipClosedError)
                 /\ UNCHANGED zip_entries
            ELSE /\ zip_entries' = Append(zip_entries,
                                          [name |-> ftask[u].rel_path,
                                           data |-> ftask[u].data])
                 /\ ftask' = [ftask EXCEPT ![u].st = "done"]
                 /\ UNCHANGED aframe
    /\ UNCHANGED <<apiVars, pc, zip_state, count_stack, total_files, ltask,
                   build_error, http_status, origin_failed>>

----------------------------------------------------------------------------
(* download_folder_as_zip: the archive and its filename, or the status of  *)
(* the HTTPException the error message is mapped to                        *)

StatusCodeFor(error_message) ==
    IF Contains(error_message, <<"Authentication", "failed">>) THEN 401
    ELSE IF Contains(error_message, <<"API", "rate", "limit", "exceeded">>)
         THEN 429
    ELSE IF Contains(error_message, <<"Repository", "or", "path", "not", "found">>)
         THEN 404
    ELSE IF Contains(error_message, <<"insufficient", "permissions">>) THEN 403
    ELSE 500

Respond ==
    /\ pc \in {"returned", "raised"}
    /\ LoopIdle
    /\ http_status' = IF pc = "returned" THEN 200
                      ELSE StatusCodeFor(build_error.msg)
    /\ pc' = "responded"
    /\ UNCHANGED <<apiVars, zip_state, zip_entries, count_stack, total_files,
                   ltask, ftask, aframe, build_error, origin_failed>>

----------------------------------------------------------------------------
(* Cancellation of the task that runs create_zip_from_folder.  Task.cancel *)
(* cancels the future the task awaits; a gather that is still pending      *)
(* cancels its unfinished children, each of which cancels what it awaits   *)
(* in turn.  A gather that is already done (one child has raised) cancels  *)
(* nothing.                                                                *)

\* the _async_add_folder_to_zip calls the cancellation reaches, from d down
RECURSIVE CancelReach(_)
CancelReach(d) ==
    {d} \cup
    (IF aframe[d].st = "subfolders" /\ aframe[d].gerr.ok
     THEN UNION {CancelReach(p) :
                    p \in {q \in SubdirSet(d) :
                              aframe[q].st \notin {"done", "failed"}}}
     ELSE {})

\* the frames, listing tasks and file tasks a cancel() made now would cancel
CancelledFrames ==
    IF pc = "adding" THEN CancelReach(Root) ELSE {}

CancelledListings ==
    IF pc = "root_listing" THEN {Root}
    ELSE IF pc = "counting"
    THEN IF Top.gerr.ok
         THEN {p \in SubdirSet(Top.dir) : ltask[p].st \in {"new", "waiting"}}
         ELSE {}
    ELSE {p \in Dirs \ {Root} :
            /\ ParentDir(p) \in CancelledFrames
            /\ aframe[ParentDir(p)].st = "listings"
            /\ aframe[ParentDir(p)].gerr.ok
            /\ ltask[p].st \in {"new", "waiting"}}

CancelledFiles ==
    {u \in Urls :
        /\ FileDir(u) \in CancelledFrames
        /\ aframe[FileDir(u)].st = "files"
        /\ aframe[FileDir(u)].gerr.ok
        /\ ftask[u].st \in {"new", "waiting"}}

\* task.cancel() while the build is suspended in an await
Cancel ==
    /\ ~cancel_requested
    /\ LoopIdle
    /\ \/ pc = "root_listing" /\ ltask[Root].st = "waiting"
       \/ pc = "counting" /\ count_stack # <<>> /\ Top.st = "gather"
       \/ pc = "adding" /\ aframe[Root].st \in {"files", "listings", "subfolders"}
    /\ cancel_requested' = TRUE
    /\ pc' = "cancelling"
    /\ ltask' = [p \in Dirs |->
                    IF p \in CancelledListings
                    THEN [ltask[p] EXCEPT !.st = "cancelled"] ELSE ltask[p]]
    /\ ftask' = [u \in Urls |->
                    IF u \in CancelledFiles
                    THEN [ftask[u] EXCEPT !.st = "cancelled"] ELSE ftask[u]]
    /\ aframe' = [d \in Dirs |->
                    IF d \in CancelledFrames
                    THEN [aframe[d] EXCEPT !.st = "cancelled"] ELSE aframe[d]]
    /\ UNCHANGED <<apiVars, zip_state, zip_entries, count_stack, total_files,
                   build_error, http_status, origin_failed, progress>>

\* the task resumes with CancelledError: the with block of line 122 closes
\* the ZipFile and the error leaves create_zip_from_folder
CancelDelivered ==
    /\ pc = "cancelling"
    /\ LoopIdle
    /\ pc' = "cancelled"
    /\ zip_state' = IF zip_state = "open" THEN "closed" ELSE zip_state
    /\ UNCHANGED <<apiVars, zip_entries, count_stack, total_files, ltask,
                   ftask, aframe, build_error, http_status, origin_failed,
                   progress, cancel_requested>>

----------------------------------------------------------------------------
(* The synchronous fallback of the build.  It runs to its end without      *)
(* yielding to the event loop, so each function is taken as a whole; every *)
(* request is answered 200 with the tree's listing or content.             *)

\* _sync_count_files
RECURSIVE SyncCountFiles(_)
SyncCountFiles(contents) ==
    IF contents = <<>> THEN 0
    ELSE LET item == Head(contents)
         IN  (IF item.type = "file" THEN 1
              ELSE IF item.type = "dir"
                   THEN SyncCountFiles(Listing(item.path))
                   ELSE 0)
             + SyncCountFiles(Tail(contents))

\* _sync_add_folder_to_zip with _sync_process_file: the archive after the
\* items of contents, in order; writestr raises on an empty name, which
\* ends the whole call
RECURSIVE SyncAddFolderToZip(_, _)
SyncAddFolderToZip(contents, zip) ==
    IF contents = <<>> \/ ~zip.ok THEN zip
    ELSE LET item == Head(contents)
             rel == RelPath(item.path, Root)
             after ==
                 IF item.type = "file"
                 THEN IF rel = <<>>
                      THEN [ok |-> FALSE, entries |-> zip.entries]
                      ELSE [ok |-> TRUE,
                            entries |-> Append(zip.entries,
                                [name |-> rel,
                                 data |-> Content(item.download_url)])]
                 ELSE IF item.type = "dir"
                      THEN SyncAddFolderToZip(Listing(item.path), zip)
                      ELSE zip
         IN  SyncAddFolderToZip(Tail(contents), after)

\* create_zip_from_folder without ASYNC_AVAILABLE (lines 129-132)
SyncBuild ==
    [total_files |-> SyncCountFiles(Listing(Root)),
     zip |-> SyncAddFolderToZip(Listing(Root), [ok |-> TRUE, entries |-> <<>>])]

----------------------------------------------------------------------------
(* SpecTasks: the controller's background tasks.  All of it runs on one    *)
(* event loop, so a coroutine's code between two awaits is one step; the   *)
(* build a task awaits is taken by its build_outcome: an archive, or an error.   *)

TaskIds == {1, 2}

\* the archives a build can return and the errors it can raise
Archives == {<<"a">>, <<"a", "b">>}
BuildErrors == {MsgNotFound, MsgUpstreamFile}

TASK_CLEANUP_HOURS == 24
MaxAgeSeconds == TASK_CLEANUP_HOURS * 3600

Missing == [some |-> FALSE]
Some(v) == [some |-> TRUE, val |-> v]

NoTask ==
    [id |-> 0, status |-> "none", created_at |-> 0, progress |-> 0,
     result |-> Missing, error |-> Missing, completed_at |-> Missing]

\* what the await of create_zip_from_folder gave (line 88)
Returned(zip_data) == [some |-> TRUE, kind |-> "returned", val |-> zip_data]
RaisedError(message) == [some |-> TRUE, kind |-> "raised", val |-> message]

\* the filename of lines 91-92
TaskFilename == <<"owner", "_", "repo", "_", "folder", ".zip">>

\* the task_info dict of lines 58-68
NewTaskInfo(id, now) ==
    [id |-> id, status |-> "queued", created_at |-> now, progress |-> 0,
     result |-> Missing, error |-> Missing, completed_at |-> Missing]

\* line 81
MarkRunning(info) == [info EXCEPT !.status = "running"]

\* lines 95-106
MarkCompleted(info, now, zip_data) ==
    [info EXCEPT !.status = "completed",
                 !.completed_at = Some(now),
                 !.progress = 100,
                 !.result = Some([filename |-> TaskFilename,
                                  size |-> Len(zip_data),
                                  task_id |-> info.id])]

\* a faulty variant: a failed task is queued again
MarkFailedRequeued(info, now, message) ==
    [info EXCEPT !.status = "queued", !.error = Some(message)]

\* lines 117-119
MarkFailed(info, now, message) ==
    [info EXCEPT !.status = "failed",
                 !.error = Some(message),
                 !.completed_at = Some(now)]

\* start_background_download: uuid4 gives an id never given before
Submit(id) ==
    /\ id \notin submitted
    /\ task_info' = [task_info EXCEPT ![id] = NewTaskInfo(id, clock)]
    /\ running_tasks' = running_tasks \cup {id}
    /\ exec_pc' = [exec_pc EXCEPT ![id] = "scheduled"]
    /\ submitted' = submitted \cup {id}
    /\ UNCHANGED <<completed_tasks, file_storage, reaped, build_outcome, reply, clock>>

\* _execute_download_task up to its await of create_zip_from_folder
ExecStart(id) ==
    /\ exec_pc[id] = "scheduled"
    /\ task_info' = [task_info EXCEPT ![id] = MarkRunning(@)]
    /\ exec_pc' = [exec_pc EXCEPT ![id] = "building"]
    /\ UNCHANGED <<running_tasks, completed_tasks, file_storage, submitted,
                   reaped, build_outcome, reply, clock>>

\* a faulty variant: the finally block does not clean up running_tasks
ExecBuildReturnedStillRunning(id, zip_data) ==
    /\ exec_pc[id] = "building"
    /\ task_info' = [task_info EXCEPT ![id] = MarkCompleted(@, clock, zip_data)]
    /\ file_storage' = [i \in DOMAIN file_storage \cup {id} |->
                           IF i = id THEN zip_data ELSE file_storage[i]]
    /\ completed_tasks' = completed_tasks \cup {id}
    /\ exec_pc' = [exec_pc EXCEPT ![id] = "finished"]
    /\ build_outcome' = [build_outcome EXCEPT ![id] = Returned(zip_data)]
    /\ UNCHANGED <<running_tasks, submitted, reaped, reply, clock>>

\* the build returns: lines 90-113, then the finally block
ExecBuildReturned(id, zip_data) ==
    /\ exec_pc[id] = "building"
    /\ task_info' = [task_info EXCEPT ![id] = MarkCompleted(@, clock, zip_data)]
    /\ file_storage' = [i \in DOMAIN file_storage \cup {id} |->
                           IF i = id THEN zip_data ELSE file_storage[i]]
    /\ completed_tasks' = completed_tasks \cup {id}
    /\ running_tasks' = running_tasks \ {id}
    /\ exec_pc' = [exec_pc EXCEPT ![id] = "finished"]
    /\ build_outcome' = [build_outcome EXCEPT ![id] = Returned(zip_data)]
    /\ UNCHANGED <<submitted, reaped, reply, clock>>

\* a faulty variant: the failed task is dropped instead of being kept
ExecBuildRaisedDropped(id, message) ==
    /\ exec_pc[id] = "building"
    /\ task_info' = [task_info EXCEPT ![id] = MarkFailed(@, clock, message)]
    /\ running_tasks' = running_tasks \ {id}
    /\ exec_pc' = [exec_pc EXCEPT ![id] = "finished"]
    /\ build_outcome' = [build_outcome EXCEPT ![id] = RaisedError(message)]
    /\ UNCHANGED <<completed_tasks, file_storage, submitted, reaped, reply,
                   clock>>

\* the build raises an Exception: lines 115-122, then the finally block
ExecBuildRaised(id, message) ==
    /\ exec_pc[id] = "building"
    /\ task_info' = [task_info EXCEPT ![id] = MarkFailed(@, clock, message)]
    /\ completed_tasks' = completed_tasks \cup {id}
    /\ running_tasks' = running_tasks \ {id}
    /\ exec_pc' = [exec_pc EXCEPT ![id] = "finished"]
    /\ build_outcome' = [build_outcome EXCEPT ![id] = RaisedError(message)]
    /\ UNCHANGED <<file_storage, submitted, reaped, reply, clock>>

\* a faulty variant: only running_tasks is searched
LookupRunningOnly(id) ==
    IF id \in running_tasks
    THEN [found |-> TRUE, record |-> task_info[id]]
    ELSE [found |-> FALSE, record |-> NoTask]

\* get_task_status: the record, or the HTTPException 404 (found = FALSE)
LookupTask(id) ==
    IF id \in running_tasks
    THEN [found |-> TRUE, record |-> task_info[id]]
    ELSE IF id \in completed_tasks
         THEN [found |-> TRUE, record |-> task_info[id]]
         ELSE [found |-> FALSE, record |-> NoTask]

NoReply ==
    [op |-> "none", id |-> 0, found |-> FALSE, record |-> NoTask,
     pc_at |-> "none", known |-> FALSE]

\* the reply also notes, as of the call, how far the task's execution was
\* and whether the id had been submitted and not yet removed
GetTaskStatus(id) ==
    /\ reply' = [op |-> "status", id |-> id,
                 found |-> LookupTask(id).found,
                 record |-> LookupTask(id).record,
                 pc_at |-> exec_pc[id],
                 known |-> id \in submitted /\ id \notin reaped]
    /\ UNCHANGED <<task_info, running_tasks, completed_tasks, file_storage,
                   exec_pc, submitted, reaped, build_outcome, clock>>

\* a faulty variant: the status of the task is not looked at
DownloadLookupAnyStatus(id) ==
    IF id \in completed_tasks
    THEN [found |-> TRUE,
          data |-> IF id \in DOMAIN file_storage THEN file_storage[id] ELSE <<>>,
          filename |-> TaskFilename]
    ELSE [found |-> FALSE, data |-> <<>>, filename |-> <<>>]

\* get_download_file: the bytes and the filename, or the HTTPException 404
DownloadLookup(id) ==
    IF /\ id \in completed_tasks
       /\ task_info[id].status = "completed"
       /\ task_info[id].result.some
       /\ id \in DOMAIN file_storage
    THEN [found |-> TRUE, data |-> file_storage[id],
          filename |-> task_info[id].result.val.filename]
    ELSE [found |-> FALSE, data |-> <<>>, filename |-> <<>>]

\* the reply also notes, as of the call, the task's status and what its
\* build had given
GetDownloadFile(id) ==
    /\ reply' = [op |-> "download", id |-> id,
                 found |-> DownloadLookup(id).found,
                 data |-> DownloadLookup(id).data,
                 filename |-> DownloadLookup(id).filename,
                 status_at |-> task_info[id].status,
                 built_at |-> build_outcome[id]]
    /\ UNCHANGED <<task_info, running_tasks, completed_tasks, file_storage,
                   exec_pc, submitted, reaped, build_outcome, clock>>

\* what one pass of cleanup_old_tasks removes (lines 163-166)
TooOld ==
    {id \in completed_tasks :
        clock - (IF task_info[id].completed_at.some
                 THEN task_info[id].completed_at.val ELSE clock)
            > MaxAgeSeconds}

\* one pass of the loop of cleanup_old_tasks (lines 157-172).  Nothing in
\* the program starts that coroutine: SpecTasks has the pass as an action to
\* show what it does to the records, SpecServer has the program without it.
CleanupOldTasksPass ==
    /\ completed_tasks' = completed_tasks \ TooOld
    /\ file_storage' = [i \in DOMAIN file_storage \ TooOld |-> file_storage[i]]
    /\ reaped' = reaped \cup TooOld
    /\ UNCHANGED <<task_info, running_tasks, exec_pc, submitted, build_outcome, reply,
                   clock>>

\* time passes, half a retention window at a time
TaskTickStep == MaxAgeSeconds \div 2

TaskTick ==
    /\ clock + TaskTickStep <= MaxTaskTicks * TaskTickStep
    /\ clock' = clock + TaskTickStep
    /\ UNCHANGED taskVars

TasksIdle ==
    /\ task_info = [id \in TaskIds |-> NoTask]
    /\ running_tasks = {}
    /\ completed_tasks = {}
    /\ file_storage = <<>>
    /\ exec_pc = [id \in TaskIds |-> "none"]
    /\ submitted = {}
    /\ reaped = {}
    /\ build_outcome = [id \in TaskIds |-> Missing]
    /\ reply = NoReply

----------------------------------------------------------------------------
(* SpecCredential: the token of one download request, from the route to    *)
(* the headers of the GitHubAPI object.  A header value is a sequence of   *)
(* symbols, "Bearer " being one of them; None is Missing.                  *)

BearerPrefix == <<"Bearer ">>

HeaderValues ==
    UNION {[1..k -> {"Bearer ", "a", "b"}] : k \in 0..3}
AuthorizationValues == {Missing} \cup {Some(h) : h \in HeaderValues}
TokenValues == {Missing, Some(<<>>), Some(<<"c">>)}
EnvValues == {Missing, Some(<<>>), Some(<<"e">>)}

\* Python truth of an Optional[str]: None and "" are false
TruthyStr(v) == v.some /\ v.val # <<>>

\* Python's "a or b"
Or(a, b) == IF TruthyStr(a) THEN a ELSE b

\* str.startswith
StartsWith(s, prefix) ==
    Len(s) >= Len(prefix) /\ SubSeq(s, 1, Len(prefix)) = prefix

\* download_folder, lines 41-47
RouteToken(header, query) ==
    LET auth_token ==
            IF TruthyStr(header) /\ StartsWith(header.val, BearerPrefix)
            THEN Some(StrReplaceAll(header.val, BearerPrefix))
            ELSE Missing
    IN  Or(auth_token, query)

\* a faulty variant: the environment's token comes first
ResolveTokenEnvFirst(given, env) == Or(env, given)

\* GitHubAPI.__init__, line 33
ResolveToken(given, env) == Or(given, env)

\* GitHubAPI.__init__, lines 34-36
AuthorizationHeader(t) ==
    IF TruthyStr(t) THEN Some(BearerPrefix \o t.val) ELSE Missing

RouteRequest ==
    /\ cred_pc = "request"
    /\ final_token' = RouteToken(authorization, token)
    /\ cred_pc' = "routed"
    /\ UNCHANGED <<authorization, token, github_token, sent_authorization,
                   filename>>

\* the controller hands the route's token to GitHubAPI(token)
NewGitHubAPI ==
    /\ cred_pc = "routed"
    /\ sent_authorization' =
           AuthorizationHeader(ResolveToken(final_token, github_token))
    /\ cred_pc' = "built"
    /\ UNCHANGED <<authorization, token, github_token, final_token, filename>>

----------------------------------------------------------------------------
(* SpecFilename: the filename download_folder_as_zip and a background task *)
(* give to the archive of a requested path.                                *)

OwnerName == <<"o">>
RepoName == <<"r">>

FolderPaths == {<<>>} \cup Strings(MaxFolderLen)

\* str.rstrip("/")
RECURSIVE RStripSlash(_)
RStripSlash(s) ==
    IF s # <<>> /\ s[Len(s)] = "/"
    THEN RStripSlash(SubSeq(s, 1, Len(s) - 1)) ELSE s

\* str.strip("/")
StripSlash(s) == RStripSlash(LStripSlash(s))

\* s.split("/")[-1]: what follows the last "/"
LastOfSplit(s) ==
    LET slashes == {i \in 1..Len(s) : s[i] = "/"}
    IN  IF slashes = {} THEN s
        ELSE SubSeq(s, (CHOOSE i \in slashes : \A j \in slashes : j <= i) + 1,
                    Len(s))

\* lines 32-33 and 91-92 of the controller
ArchiveFilename(owner, repo, path) ==
    LET folder_name == IF StripSlash(path) # <<>>
                       THEN LastOfSplit(StripSlash(path)) ELSE repo
    IN  owner \o <<"_">> \o repo \o <<"_">> \o folder_name \o <<".zip">>

ComputeFilename ==
    /\ ~filename.some
    /\ filename' = Some(ArchiveFilename(OwnerName, RepoName, base_folder))
    /\ UNCHANGED <<authorization, token, github_token, final_token,
                   sent_authorization, cred_pc>>

RequestIdle ==
    /\ authorization = Missing
    /\ token = Missing
    /\ github_token = Missing
    /\ final_token = Missing
    /\ sent_authorization = Missing
    /\ cred_pc = "off"
    /\ filename = Missing

----------------------------------------------------------------------------
(* The CleanupManager.  The only periodic work the program starts is its   *)
(* loop (startup_event); cleanup_old_tasks of the controller is defined    *)
(* but called from nowhere, so it is no action of SpecServer.              *)
(*                                                                         *)
(* A loop task is "created" until its first step, then "pass" (inside      *)
(* _run_cleanup_tasks) or "sleeping"; cancel() makes it "cancelling" until *)
(* its next step raises CancelledError ("cancelled"); it is "exited" once  *)
(* the while condition was found false.  No Exception reaches the handler  *)
(* of lines 66-69: _run_cleanup_tasks catches its own, and asyncio.sleep   *)
(* raises none.                                                            *)

LoopIds == 1..MaxLoops

\* the loop tasks that have not finished
Alive == {l \in LoopIds : loops[l] \in {"created", "pass", "sleeping",
                                        "cancelling"}}

\* the loop tasks that run or will run the loop's body: not finished and
\* not cancelled
Active == {l \in LoopIds : loops[l] \in {"created", "pass", "sleeping"}}

\* the tasks create_task has made so far
Created == {l \in LoopIds : loops[l] # "none"}

Called(op, waits) == [op |-> op, waits |-> waits]

\* start(r2_storage), called with the R2Storage object as startup_event
\* does.  It has no await: the whole call is one step.
ManagerStart ==
    /\ is_running \/ Cardinality(Created) < MaxLoops
    /\ IF is_running
       THEN UNCHANGED <<is_running, cleanup_task, loops, overlapped>>
       ELSE LET new == Cardinality(Created) + 1
            IN  /\ is_running' = TRUE
                /\ loops' = [loops EXCEPT ![new] = "created"]
                /\ cleanup_task' = new
                /\ overlapped' = (overlapped \/ stopping # {})
    /\ last_call' = Called("start", 0)
    /\ UNCHANGED <<stopping, taskVars, clock>>

\* stop() up to its await: is_running is cleared, the task _cleanup_task
\* refers to is cancelled and awaited.  Awaiting a task that has finished
\* does not suspend, so the call then runs to its end.
ManagerStop ==
    /\ IF ~is_running
       THEN /\ UNCHANGED <<is_running, cleanup_task, loops, stopping>>
            /\ last_call' = Called("stop", 0)
       ELSE /\ is_running' = FALSE
            /\ IF cleanup_task = 0
               THEN /\ UNCHANGED <<cleanup_task, loops, stopping>>
                    /\ last_call' = Called("stop", 0)
               ELSE IF cleanup_task \in Alive
               THEN /\ loops' = [loops EXCEPT ![cleanup_task] = "cancelling"]
                    /\ stopping' = stopping \cup {cleanup_task}
                    /\ last_call' = Called("stop", cleanup_task)
                    /\ UNCHANGED cleanup_task
               ELSE /\ cleanup_task' = 0
                    /\ last_call' = Called("stop", 0)
                    /\ UNCHANGED <<loops, stopping>>
    /\ UNCHANGED <<overlapped, taskVars, clock>>

\* stop() from its await to its end: the awaited task has finished, the
\* CancelledError is passed over and _cleanup_task is cleared
ManagerStopResume(l) ==
    /\ l \in stopping
    /\ loops[l] \in {"cancelled", "exited"}
    /\ cleanup_task' = 0
    /\ stopping' = stopping \ {l}
    /\ last_call' = IF last_call.waits = l THEN Called("stop", 0)
                    ELSE last_call
    /\ UNCHANGED <<is_running, loops, overlapped, taskVars, clock>>

\* the while condition of _run_cleanup_loop: a pass begins, or the loop ends
WhileIsRunning(l) ==
    loops' = [loops EXCEPT ![l] = IF is_running THEN "pass" ELSE "exited"]

\* the first step of a loop task
CleanupLoopBegin(l) ==
    /\ loops[l] = "created"
    /\ WhileIsRunning(l)
    /\ UNCHANGED <<is_running, cleanup_task, stopping, last_call, overlapped,
                   taskVars, clock>>

\* one _run_cleanup_tasks, which cleans expired files of the R2 storage and
\* touches no task record, then the sleep begins
CleanupLoopPass(l) ==
    /\ loops[l] = "pass"
    /\ loops' = [loops EXCEPT ![l] = "sleeping"]
    /\ UNCHANGED <<is_running, cleanup_task, stopping, last_call, overlapped,
                   taskVars, clock>>

\* asyncio.sleep(cleanup_interval) returns
CleanupLoopWake(l) ==
    /\ loops[l] = "sleeping"
    /\ WhileIsRunning(l)
    /\ UNCHANGED <<is_running, cleanup_task, stopping, last_call, overlapped,
                   taskVars, clock>>

\* the step of a cancelled task: CancelledError is raised at its await (or
\* before its first line), logged and raised again
CleanupLoopCancelled(l) ==
    /\ loops[l] = "cancelling"
    /\ loops' = [loops EXCEPT ![l] = "cancelled"]
    /\ UNCHANGED <<is_running, cleanup_task, stopping, last_call, overlapped,
                   taskVars, clock>>

ManagerIdle ==
    /\ is_running = FALSE
    /\ cleanup_task = 0
    /\ loops = [l \in LoopIds |-> "none"]
    /\ stopping = {}
    /\ last_call = Called("none", 0)
    /\ overlapped = FALSE

----------------------------------------------------------------------------
(* Specifications *)

StripIdle ==
    /\ base_folder = <<>>
    /\ item_path = <<>>
    /\ rel_path = <<>>
    /\ rel_again = <<>>
    /\ strip_pc = "off"

InitApi ==
    /\ cache = EmptyCache
    /\ rate_limit_remaining = InitialRemaining
    /\ rate_limit_reset = 0
    /\ clock = 0

SideIdle ==
    /\ written = [k \in CacheKeys |-> NoWrite]
    /\ got = NoGet
    /\ rl_obs = NoUpdate
    /\ TasksIdle
    /\ RequestIdle
    /\ ManagerIdle

BuildIdle ==
    /\ pc = "off"
    /\ zip_state = "none"
    /\ zip_entries = <<>>
    /\ count_stack = <<>>
    /\ total_files = 0
    /\ ltask = [d \in Dirs |-> NoListingTask]
    /\ ftask = [u \in Urls |-> NoFileTask]
    /\ aframe = [d \in Dirs |-> NoFrame]
    /\ build_error = Success
    /\ http_status = 0
    /\ origin_failed = FALSE
    /\ progress = <<>>
    /\ cancel_requested = FALSE

InitStrip ==
    /\ base_folder \in StripRoots
    /\ item_path \in PathsUnder(base_folder)
    /\ rel_path = <<>>
    /\ rel_again = <<>>
    /\ strip_pc = "start"
    /\ tree = 1
    /\ async_available = TRUE
    /\ InitApi
    /\ last = NoCall
    /\ BuildIdle
    /\ SideIdle

NextStrip ==
    \/ (StripOnce /\ UNCHANGED <<apiVars, last, buildVars, sideVars>>)
    \/ (StripAgain /\ UNCHANGED <<apiVars, last, buildVars, sideVars>>)

SpecStrip == InitStrip /\ [][NextStrip]_vars

InitOrigin ==
    /\ tree \in OriginTrees
    /\ async_available \in BOOLEAN
    /\ InitApi
    /\ last = NoCall
    /\ StripIdle
    /\ BuildIdle
    /\ SideIdle

NextOrigin ==
    \/ (ListDirectory /\ UNCHANGED <<stripVars, buildVars, sideVars>>)
    \/ (SyncListDirectory /\ UNCHANGED <<stripVars, buildVars, sideVars>>)
    \/ (FetchFile /\ UNCHANGED <<stripVars, buildVars, sideVars>>)
    \/ (Tick /\ UNCHANGED <<stripVars, buildVars, sideVars>>)

SpecOrigin == InitOrigin /\ [][NextOrigin]_vars

InitOriginHeaders ==
    /\ tree = 1
    /\ async_available = TRUE
    /\ InitApi
    /\ last = NoCall
    /\ StripIdle
    /\ BuildIdle
    /\ SideIdle

NextOriginHeaders ==
    \/ (ListDirectoryObserved /\ UNCHANGED <<stripVars, buildVars, restVars>>)
    \/ (FetchFileObserved /\ UNCHANGED <<stripVars, buildVars, restVars>>)
    \/ (Tick /\ UNCHANGED <<stripVars, buildVars, sideVars>>)

SpecOriginHeaders == InitOriginHeaders /\ [][NextOriginHeaders]_vars

InitCache ==
    /\ tree = 1
    /\ async_available = TRUE
    /\ InitApi
    /\ last = NoCall
    /\ StripIdle
    /\ BuildIdle
    /\ SideIdle

NextCache ==
    \/ (\E key \in CacheKeys, data \in CacheValues :
            CachePut(key, data)
            /\ UNCHANGED <<stripVars, last, buildVars, restVars>>)
    \/ (\E key \in CacheKeys :
            CacheGet(key) /\ UNCHANGED <<stripVars, last, buildVars, restVars>>)
    \/ (Tick /\ UNCHANGED <<stripVars, buildVars, sideVars>>)

SpecCache == InitCache /\ [][NextCache]_vars

InitRateLimit ==
    /\ tree = 1
    /\ async_available \in BOOLEAN
    /\ InitApi
    /\ last = NoCall
    /\ StripIdle
    /\ BuildIdle
    /\ SideIdle

NextRateLimit ==
    \/ (/\ async_available
        /\ \E resp \in RateLimitResponses : AsyncUpdate(resp)
        /\ UNCHANGED <<stripVars, last, buildVars, restVars>>)
    \/ (/\ ~async_available
        /\ \E resp \in RateLimitResponses : SyncUpdate(resp)
        /\ UNCHANGED <<stripVars, last, buildVars, restVars>>)

SpecRateLimit == InitRateLimit /\ [][NextRateLimit]_vars

InitTasks ==
    /\ tree = 1
    /\ async_available = TRUE
    /\ InitApi
    /\ last = NoCall
    /\ StripIdle
    /\ BuildIdle
    /\ SideIdle

taskFrame == <<stripVars, tree, async_available, cache, rate_limit_remaining,
               rate_limit_reset, last, buildVars, written, got, rl_obs,
               reqVars, mgrVars>>

NextTasks ==
    \/ (\E id \in TaskIds : Submit(id) /\ UNCHANGED taskFrame)
    \/ (\E id \in TaskIds : ExecStart(id) /\ UNCHANGED taskFrame)
    \/ (\E id \in TaskIds, zip_data \in Archives :
            ExecBuildReturned(id, zip_data) /\ UNCHANGED taskFrame)
    \/ (\E id \in TaskIds, message \in BuildErrors :
            ExecBuildRaised(id, message) /\ UNCHANGED taskFrame)
    \/ (\E id \in TaskIds : GetTaskStatus(id) /\ UNCHANGED taskFrame)
    \/ (\E id \in TaskIds : GetDownloadFile(id) /\ UNCHANGED taskFrame)
    \/ (CleanupOldTasksPass /\ UNCHANGED taskFrame)
    \/ (TaskTick /\ UNCHANGED taskFrame)

SpecTasks == InitTasks /\ [][NextTasks]_vars

serverFrame == <<stripVars, tree, async_available, cache,
                 rate_limit_remaining, rate_limit_reset, last, buildVars,
                 written, got, rl_obs, reqVars>>

NextServer ==
    \/ (ManagerStart /\ UNCHANGED serverFrame)
    \/ (\E l \in LoopIds : CleanupLoopBegin(l) /\ UNCHANGED serverFrame)
    \/ (\E l \in LoopIds : CleanupLoopPass(l) /\ UNCHANGED serverFrame)
    \/ (\E l \in LoopIds : CleanupLoopWake(l) /\ UNCHANGED serverFrame)
    \/ (\E id \in TaskIds : Submit(id) /\ UNCHANGED taskFrame)
    \/ (\E id \in TaskIds : ExecStart(id) /\ UNCHANGED taskFrame)
    \/ (\E id \in TaskIds, zip_data \in Archives :
            ExecBuildReturned(id, zip_data) /\ UNCHANGED taskFrame)
    \/ (\E id \in TaskIds, message \in BuildErrors :
            ExecBuildRaised(id, message) /\ UNCHANGED taskFrame)
    \/ (\E id \in TaskIds : GetTaskStatus(id) /\ UNCHANGED taskFrame)
    \/ (\E id \in TaskIds : GetDownloadFile(id) /\ UNCHANGED taskFrame)
    \/ (TaskTick /\ UNCHANGED taskFrame)

SpecServer == InitTasks /\ [][NextServer]_vars

NextManager ==
    \/ (ManagerStart /\ UNCHANGED serverFrame)
    \/ (ManagerStop /\ UNCHANGED serverFrame)
    \/ (\E l \in LoopIds : ManagerStopResume(l) /\ UNCHANGED serverFrame)
    \/ (\E l \in LoopIds : CleanupLoopBegin(l) /\ UNCHANGED serverFrame)
    \/ (\E l \in LoopIds : CleanupLoopPass(l) /\ UNCHANGED serverFrame)
    \/ (\E l \in LoopIds : CleanupLoopWake(l) /\ UNCHANGED serverFrame)
    \/ (\E l \in LoopIds : CleanupLoopCancelled(l) /\ UNCHANGED serverFrame)

SpecManager == InitTasks /\ [][NextManager]_vars

InitCredential ==
    /\ authorization \in AuthorizationValues
    /\ token \in TokenValues
    /\ github_token \in EnvValues
    /\ final_token = Missing
    /\ sent_authorization = Missing
    /\ cred_pc = "request"
    /\ filename = Missing
    /\ tree = 1
    /\ async_available = TRUE
    /\ InitApi
    /\ last = NoCall
    /\ StripIdle
    /\ BuildIdle
    /\ written = [k \in CacheKeys |-> NoWrite]
    /\ got = NoGet
    /\ rl_obs = NoUpdate
    /\ TasksIdle
    /\ ManagerIdle

credFrame == <<stripVars, apiVars, last, buildVars, written, got, rl_obs,
               taskVars, mgrVars>>

NextCredential ==
    \/ (RouteRequest /\ UNCHANGED credFrame)
    \/ (NewGitHubAPI /\ UNCHANGED credFrame)

SpecCredential == InitCredential /\ [][NextCredential]_vars

InitFilename ==
    /\ base_folder \in FolderPaths
    /\ item_path = <<>>
    /\ rel_path = <<>>
    /\ rel_again = <<>>
    /\ strip_pc = "off"
    /\ tree = 1
    /\ async_available = TRUE
    /\ InitApi
    /\ last = NoCall
    /\ BuildIdle
    /\ SideIdle

NextFilename == ComputeFilename /\ UNCHANGED credFrame

SpecFilename == InitFilename /\ [][NextFilename]_vars

Init ==
    /\ tree \in BuildTrees
    /\ async_available = TRUE
    /\ InitApi
    /\ last = NoCall
    /\ StripIdle
    /\ SideIdle
    /\ pc = "init"
    /\ zip_state = "none"
    /\ zip_entries = <<>>
    /\ count_stack = <<>>
    /\ total_files = 0
    /\ ltask = [d \in Dirs |-> NoListingTask]
    /\ ftask = [u \in Urls |-> NoFileTask]
    /\ aframe = [d \in Dirs |-> NoFrame]
    /\ build_error = Success
    /\ http_status = 0
    /\ origin_failed = FALSE
    /\ progress = <<>>
    /\ cancel_requested = FALSE

Next ==
    \/ (BuildStart /\ UNCHANGED <<stripVars, last, sideVars, progress, cancel_requested>>)
    \/ (\E resp \in BuildResponses :
            RootListed(resp) /\ UNCHANGED <<stripVars, last, sideVars, progress, cancel_requested>>)
    \/ (CountEnter /\ UNCHANGED <<stripVars, last, sideVars, progress, cancel_requested>>)
    \/ (CountGathered /\ UNCHANGED <<stripVars, last, sideVars, progress, cancel_requested>>)
    \/ (CountCall /\ UNCHANGED <<stripVars, last, sideVars, progress, cancel_requested>>)
    \/ (CountReturn /\ UNCHANGED <<stripVars, last, sideVars, progress, cancel_requested>>)
    \/ (CountFinish /\ UNCHANGED <<stripVars, last, sideVars, progress, cancel_requested>>)
    \/ (CountFailed /\ UNCHANGED <<stripVars, last, sideVars, progress, cancel_requested>>)
    \/ (\E p \in Dirs : ListingStart(p) /\ UNCHANGED <<stripVars, last, sideVars, progress, cancel_requested>>)
    \/ (\E p \in Dirs, resp \in BuildResponses :
            ListingResponse(p, resp) /\ UNCHANGED <<stripVars, last, sideVars, progress, cancel_requested>>)
    \/ (\E d \in Dirs : AddEnter(d) /\ UNCHANGED <<stripVars, last, sideVars, progress, cancel_requested>>)
    \/ (\E d \in Dirs : AddFilesDone(d)
            /\ UNCHANGED <<stripVars, last, sideVars, cancel_requested>>)
    \/ (\E d \in Dirs : AddListingsDone(d) /\ UNCHANGED <<stripVars, last, sideVars, progress, cancel_requested>>)
    \/ (\E d \in Dirs : AddSubfoldersDone(d) /\ UNCHANGED <<stripVars, last, sideVars, progress, cancel_requested>>)
    \/ (\E d \in Dirs : AddGatherFailed(d) /\ UNCHANGED <<stripVars, last, sideVars, progress, cancel_requested>>)
    \/ (\E u \in Urls : FileStart(u) /\ UNCHANGED <<stripVars, last, sideVars, progress, cancel_requested>>)
    \/ (\E u \in Urls, resp \in BuildResponses :
            FileResponse(u, resp) /\ UNCHANGED <<stripVars, last, sideVars, progress, cancel_requested>>)
    \/ (\E u \in Urls : FileAppend(u) /\ UNCHANGED <<stripVars, last, sideVars, progress, cancel_requested>>)
    \/ (Respond /\ UNCHANGED <<stripVars, last, sideVars, progress, cancel_requested>>)

Spec == Init /\ [][Next]_vars

NextCancel ==
    \/ Next
    \/ (Cancel /\ UNCHANGED <<stripVars, last, sideVars>>)
    \/ (CancelDelivered /\ UNCHANGED <<stripVars, last, sideVars>>)

SpecCancel == Init /\ [][NextCancel]_vars

\* the event loop runs a ready coroutine whenever there is one, and the
\* origin answers every request
SpecFair == Spec /\ WF_vars(Next)

----------------------------------------------------------------------------
(* Claims on the path computation *)

\* C2: the archive entry name of a discovered file is its path with only
\* the leading root prefix (and the separator after it) removed.
C2_EntryNameIsPathWithoutRootPrefix ==
    strip_pc # "start" => rel_path = WithoutRootPrefix(item_path, base_folder)

\* C3: stripping an already stripped path returns it unchanged.
C3_StripIdempotent ==
    strip_pc = "restripped" => rel_again = rel_path

----------------------------------------------------------------------------
(* Claims on the origin operations *)

OriginCallMade == last.op # "none" /\ last.requests = 1

\* C7: a 403 yields RateLimitExceeded when the remaining count, after that
\* response's headers are applied, is 0 and PermissionError when it is
\* greater than 0; a 401 always yields AuthenticationError.
C7_RateLimitClassification ==
    OriginCallMade =>
        /\ (last.status = 403 /\ rate_limit_remaining = 0)
              => last.outcome.kind = "RateLimitExceeded"
        /\ (last.status = 403 /\ rate_limit_remaining > 0)
              => last.outcome.kind = "PermissionError"
        /\ last.status = 401 => last.outcome.kind = "AuthenticationError"

\* a listing answered 403 whose own header set the remaining count to 0
C7_Witness ==
    /\ last.op = "contents"
    /\ last.status = 403
    /\ rate_limit_remaining = 0
    /\ last.outcome.kind = "RateLimitExceeded"

\* C8: a 404 yields NotFoundError for a listing and for a file fetch, and
\* any other non-2xx status yields UpstreamError carrying the origin's message.
C8_NotFoundAndUpstream ==
    OriginCallMade =>
        /\ last.status = 404 => last.outcome.kind = "NotFoundError"
        /\ last.status = 500 =>
              /\ last.outcome.kind = "UpstreamError"
              /\ Contains(last.outcome.msg, last.message)

\* C10: a call that finds an unexpired cache entry for its key returns it
\* and issues no HTTP request; any other call issues exactly one.
C10_CacheFirst ==
    last.op # "none" =>
        /\ last.fresh => (last.requests = 0 /\ last.value = last.held)
        /\ ~last.fresh => last.requests = 1


\* C27: a response with any 2xx status is a success for both origin
\* operations: no error is raised, the body is returned, and a listing is
\* stored in the cache.
C27_Any2xxIsSuccess ==
    (OriginCallMade /\ last.status >= 200 /\ last.status <= 299) =>
        /\ last.outcome.ok
        /\ last.op \in {"contents", "sync_contents"} =>
              /\ last.value = Listing(last.key.arg)
              /\ cache[last.key].present
        /\ last.op = "file" => last.value = Content(last.key.arg)

\* the same for the one status the code accepts
Status200IsSuccess ==
    (OriginCallMade /\ last.status = 200) =>
        /\ last.outcome.ok
        /\ last.op \in {"contents", "sync_contents"} =>
              /\ last.value = Listing(last.key.arg)
              /\ cache[last.key].present
        /\ last.op = "file" => last.value = Content(last.key.arg)

\* a call made in this step issued a request and ended in an error
FailedCallStep ==
    /\ clock' = clock
    /\ last'.requests >= 1
    /\ ~last'.outcome.ok

\* no key of the cache gains or changes an entry; an entry that had expired
\* may be gone
NothingCached ==
    \A k \in CacheKeys :
        \/ cache'[k] = cache[k]
        \/ (cache'[k] = NoEntry /\ ~Fresh(cache, k, clock))

HeaderApplied(h, before, after) ==
    /\ (h.present /\ h.valid) => after = h.val
    /\ h = Absent => after = before

\* C28: a listing or file fetch that ends in an error stores nothing in the
\* cache, has issued exactly one request, and has applied the rate-limit
\* headers of its response.
C28_FailedCallFrame ==
    [][FailedCallStep =>
          /\ NothingCached
          /\ last'.requests = 1
          /\ HeaderApplied(rl_obs'.remaining_header, rate_limit_remaining,
                           rate_limit_remaining')
          /\ HeaderApplied(rl_obs'.reset_header, rate_limit_reset,
                           rate_limit_reset')]_vars

\* the same for the responses whose remaining header is not malformed
FailedCallFrameUnlessRemainingMalformed ==
    [][(FailedCallStep /\ rl_obs'.remaining_header # Malformed) =>
          /\ NothingCached
          /\ last'.requests = 1
          /\ HeaderApplied(rl_obs'.remaining_header, rate_limit_remaining,
                           rate_limit_remaining')
          /\ HeaderApplied(rl_obs'.reset_header, rate_limit_reset,
                           rate_limit_reset')]_vars

\* whatever the headers, a failed call stores nothing and asks once
FailedCallStoresNothing ==
    [][FailedCallStep => (NothingCached /\ last'.requests = 1)]_vars
----------------------------------------------------------------------------
(* Claims on the build *)

Entries == {zip_entries[i] : i \in DOMAIN zip_entries}

TasksSettled ==
    /\ \A p \in Dirs : ltask[p].st \notin {"new", "waiting"}
    /\ \A u \in Urls : ftask[u].st \notin {"new", "waiting", "appending"}

\* C1: a build in which no listing and no fetch fails appends every one of
\* the N files of the tree exactly once: the archive has exactly N entries.
C1_ExactlyOneEntryPerFile ==
    (BuildOver /\ TasksSettled /\ ~origin_failed) =>
        /\ Len(zip_entries) = Cardinality(Urls)
        /\ \A u \in Urls : ftask[u].st = "done"

\* C4: at most one worker is inside zip_file.writestr at any moment.
C4_AppendsMutuallyExclusive == Cardinality(Appending) <= 1

\* one worker is inside writestr while another's download is in flight
C4_Witness ==
    \E u, v \in Urls :
        /\ u # v
        /\ ftask[u].st = "appending"
        /\ ftask[v].st = "waiting"
        /\ zip_state = "open"

\* C5: once the archive is sealed and the build has returned or raised, no
\* worker is still fetching a file or about to append it.
C5_NoWorkAfterSeal ==
    (BuildOver /\ zip_state = "closed") =>
        \A u \in Urls : ftask[u].st \notin {"new", "waiting", "appending"}

\* C6: in a run without failure the set of (name, content) entries of the
\* sealed archive is fixed by the tree, whatever the interleaving of the
\* listings and fetches; only the order of the entries varies.
C6_EntrySetIndependentOfInterleaving ==
    (pc = "returned" /\ zip_state = "closed") =>
        Entries = {[name |-> RelPath(FilePath(u), Root), data |-> Content(u)] :
                      u \in Urls}

\* a sealed archive whose entries are not in the order of the listing
C6_Witness ==
    /\ pc = "returned"
    /\ zip_state = "closed"
    /\ Len(zip_entries) >= 2
    /\ zip_entries[1].name # RelPath(FilesOf(Listing(Root))[1].path, Root)

KindOfStatus(kind) ==
    CASE kind = "AuthenticationError" -> 401
      [] kind = "RateLimitExceeded" -> 429
      [] kind = "NotFoundError" -> 404
      [] kind = "PermissionError" -> 403
      [] OTHER -> 500

\* C9: download_folder_as_zip answers an origin error with the status of
\* its kind: 401, 429, 404, 403, and 500 for every other error.
C9_StatusOfKind ==
    (pc = "responded" /\ ~build_error.ok) =>
        http_status = KindOfStatus(build_error.kind)

----------------------------------------------------------------------------
(* Claims on the cache and on the rate-limit update *)

\* C11: a get of key k made less than the TTL after the last put on k
\* returns the value of that put, whatever was put and got on other keys
\* in between and whatever was put on k before.
C11_CacheRoundTrip ==
    (/\ got.op = "get"
     /\ written[got.key].some
     /\ got.at - written[got.key].at < CACHE_TTL_SECONDS)
        => got.value = [some |-> TRUE, data |-> written[got.key].data]

\* a get that returns the second value put on its key, some time after the
\* put and with the other key written too
C11_Witness ==
    /\ got.op = "get"
    /\ written[got.key].n = 2
    /\ got.at > written[got.key].at
    /\ got.value = [some |-> TRUE, data |-> written[got.key].data]
    /\ \E k \in CacheKeys : k # got.key /\ written[k].some

C12_ExpiredReadIsAbsentAndEvicts ==
    (/\ got.op = "get"
     /\ written[got.key].some
     /\ got.at - written[got.key].at >= CACHE_TTL_SECONDS)
        => (~got.value.some /\ ~cache[got.key].present)

C12_RemovedOnlyByExpiredRead ==
    \A k \in CacheKeys :
        (cache[k].present /\ ~cache'[k].present)
            => /\ got'.op = "get"
               /\ got'.key = k
               /\ got'.at - written[k].at >= CACHE_TTL_SECONDS

\* C12: a get made when the entry is TTL old or older returns absent and
\* deletes the entry, and no other step ever deletes an entry.
C12_LazyExpiry ==
    [](C12_ExpiredReadIsAbsentAndEvicts) /\ [][C12_RemovedOnlyByExpiredRead]_vars

\* a get that found its key in the dict, exactly TTL after the put, and
\* removed it
C12_Witness ==
    /\ got.op = "get"
    /\ got.held
    /\ got.at - written[got.key].at = CACHE_TTL_SECONDS
    /\ ~got.value.some
    /\ ~cache[got.key].present

\* C13: after an update, a field whose header was absent has its prior
\* value, a field whose header was an integer has that integer, and the
\* update raised nothing.
C13_HeaderUpdatesField ==
    rl_obs.op # "none" =>
        /\ ~rl_obs.raised
        /\ rl_obs.remaining_header = Absent
              => rate_limit_remaining = rl_obs.prior_remaining
        /\ rl_obs.reset_header = Absent
              => rate_limit_reset = rl_obs.prior_reset
        /\ (rl_obs.remaining_header.present /\ rl_obs.remaining_header.valid)
              => rate_limit_remaining = rl_obs.remaining_header.val
        /\ (rl_obs.reset_header.present /\ rl_obs.reset_header.valid)
              => rate_limit_reset = rl_obs.reset_header.val


\* C29: the remaining count is never negative, whatever headers the
\* responses carried.
C29_RemainingNonNegative ==
    rate_limit_remaining >= 0

HeaderRejected(h) == h.present /\ ~h.valid

\* C30: when either rate-limit header of a response is present but not an
\* integer, the update leaves both fields at their prior values.
C30_UpdateAllOrNothing ==
    (rl_obs.op # "none"
        /\ (HeaderRejected(rl_obs.remaining_header)
               \/ HeaderRejected(rl_obs.reset_header)))
    => /\ rate_limit_remaining = rl_obs.prior_remaining
       /\ rate_limit_reset = rl_obs.prior_reset

\* the same when the rejected header is the remaining count, which is read
\* first
UpdateNothingWhenRemainingRejected ==
    (rl_obs.op # "none" /\ HeaderRejected(rl_obs.remaining_header))
    => /\ rate_limit_remaining = rl_obs.prior_remaining
       /\ rate_limit_reset = rl_obs.prior_reset
----------------------------------------------------------------------------
(* Claims on the build: scheduling, progress, failure policy *)

Listed(d) == cache[ContentsKey(d)].present
FetchStarted == \E u \in Urls : ftask[u].st \notin {"none", "new"}
InFlight == {u \in Urls : ftask[u].st = "waiting"}
HasFileAndSubdir == Urls # {} /\ Cardinality(Dirs) > 1

\* what the build does instead: _async_count_files has listed every
\* directory before the first _async_process_file task is created
ScanCompletesBeforeFirstFetch ==
    (\E u \in Urls : ftask[u].st # "none") => \A d \in Dirs : Listed(d)

\* C14: on a tree with a file and a subdirectory, a build in which nothing
\* fails comes to a state where a file fetch has started while some
\* directory has not been listed yet.
C14_FetchStartsWhileScanning ==
    HasFileAndSubdir =>
        <>(origin_failed \/ (FetchStarted /\ \E d \in Dirs : ~Listed(d)))

\* C15: the file fetches in flight stay below a worker count, also on a
\* tree with more files than workers: they are never all in flight at once.
C15_FetchesInFlightBounded ==
    Cardinality(Urls) > 1 => Cardinality(InFlight) < Cardinality(Urls)

\* C16: every reported processed count is at most the total and equals the
\* number of entries appended so far, the reports never decrease, and the
\* last report of a build that returns equals the total.
C16_ProgressCounter ==
    /\ \A i \in DOMAIN progress :
          /\ progress[i].processed <= progress[i].total
          /\ progress[i].processed = progress[i].appended
    /\ \A i, j \in DOMAIN progress :
          i < j => progress[i].processed <= progress[j].processed
    /\ (pc = "returned" /\ progress # <<>>)
          => progress[Len(progress)].processed = total_files

AnyTaskFailed ==
    \/ \E p \in Dirs : ltask[p].st = "failed"
    \/ \E u \in Urls : ftask[u].st = "failed"

\* C17: a build in which a listing or a file task failed does not return
\* an archive, and a build that raises raises the error of a failed task.
C17_AbortWholeJob ==
    /\ (BuildOver /\ build_error.ok) => ~AnyTaskFailed
    /\ (BuildOver /\ ~build_error.ok) =>
          \/ \E p \in Dirs : ltask[p].st = "failed" /\ ltask[p].err = build_error
          \/ \E u \in Urls : ftask[u].st = "failed" /\ ftask[u].err = build_error

\* a build that raised the error of a file fetch two directories below the
\* root, after files of the directories above were appended
C17_Witness ==
    /\ pc = "raised"
    /\ tree = 6
    /\ zip_entries # <<>>
    /\ \E u \in Urls :
          /\ FileDir(u) \notin {Root} \cup SubdirSet(Root)
          /\ ftask[u].st = "failed"
          /\ ftask[u].err = build_error

\* C26: the total computed before archiving is the number of files of the
\* tree, whatever its shape.
C26_TotalIsFileCount ==
    pc = "adding" => total_files = Cardinality(Urls)

\* the same, on the trees in which no directory has two subdirectories
TotalIsFileCountWithoutSiblings ==
    (pc = "adding" /\ \A d \in Dirs : Cardinality(SubdirSet(d)) < 2)
        => total_files = Cardinality(Urls)

\* C31: no two entries of an archive have the same name: distinct files of
\* a tree get distinct archive-relative paths.
C31_EntryNamesDistinct ==
    \A i, j \in DOMAIN zip_entries :
        i # j => zip_entries[i].name # zip_entries[j].name

\* the same on the trees in which no file's path below the root contains
\* the root's name again
EntryNamesDistinctUnlessRootInName ==
    (\A u \in Urls :
        ~Contains(SubSeq(FilePath(u), Len(Root) + 1, Len(FilePath(u))), Root))
    => \A i, j \in DOMAIN zip_entries :
           i # j => zip_entries[i].name # zip_entries[j].name

SyncEntries ==
    {SyncBuild.zip.entries[i] : i \in DOMAIN SyncBuild.zip.entries}

\* C32: on a tree on which nothing fails, the async build counts the same
\* total as the synchronous fallback and appends the same set of
\* (name, content) entries.
C32_AsyncEqualsSync ==
    /\ pc = "adding" => total_files = SyncBuild.total_files
    /\ (pc = "returned" /\ zip_state = "closed") =>
          (SyncBuild.zip.ok /\ Entries = SyncEntries)

\* the entries alone
AsyncEntriesEqualSyncEntries ==
    (pc = "returned" /\ zip_state = "closed") =>
        (SyncBuild.zip.ok /\ Entries = SyncEntries)

\* the fallback's total is the number of files of the tree
SyncTotalIsFileCount ==
    SyncBuild.total_files = Cardinality(Urls)

----------------------------------------------------------------------------
(* Claims on cancellation *)

WorkersStopped ==
    /\ ftask' = ftask
    /\ ltask' = ltask
    /\ zip_entries' = zip_entries

\* what holds instead: a cancellation stops every worker unless a task of
\* the build had failed before
CancelStopsWorkersUnlessOneFailed ==
    [][(cancel_requested /\ ~AnyTaskFailed) => WorkersStopped]_vars

\* C18: once the task running the build is cancelled after some files
\* were appended, no listing or file task of the build takes another step
\* and nothing more is appended.
C18_CancelStopsWorkers ==
    [][(cancel_requested /\ zip_entries # <<>>) => WorkersStopped]_vars

----------------------------------------------------------------------------
(* Claims on the background tasks *)

TaskStatuses == {"queued", "running", "completed", "failed"}

StatusSteps ==
    {<<"none", "queued">>, <<"queued", "running">>,
     <<"running", "completed">>, <<"running", "failed">>}

C19_StatusIsOneOfFour ==
    \A id \in submitted : task_info[id].status \in TaskStatuses

C19_StatusSteps ==
    \A id \in TaskIds :
        task_info'[id].status # task_info[id].status
            => <<task_info[id].status, task_info'[id].status>> \in StatusSteps

\* C19: a task's status is one of the four values and changes only from
\* queued to running and from running to completed or to failed, so a task
\* ends at most once and a completed or failed task keeps its status.
C19_TaskLifecycle ==
    [](C19_StatusIsOneOfFour) /\ [][C19_StatusSteps]_vars

\* one task has completed and the other has failed
C19_Witness ==
    /\ task_info[1].status = "completed"
    /\ task_info[2].status = "failed"

\* C20: get_task_status answers 404 exactly for an id that was never
\* submitted or that was reaped; otherwise it returns the record of that
\* id, in the status the task's execution had reached.
C20_StatusFoundUnlessUnknown ==
    reply.op = "status" =>
        /\ reply.found <=> reply.known
        /\ reply.found =>
              /\ reply.record.id = reply.id
              /\ reply.pc_at = "scheduled" => reply.record.status = "queued"
              /\ reply.pc_at = "building" => reply.record.status = "running"
              /\ reply.pc_at = "finished"
                    => reply.record.status \in {"completed", "failed"}

\* the status of a task asked right after its submission, while another
\* task has already been reaped
C20_Witness ==
    /\ reply.op = "status"
    /\ reply.found
    /\ reply.record.status = "queued"
    /\ reaped # {}

\* C21: get_download_file returns bytes and a filename only for a task whose
\* status is completed, and the bytes are the archive that task's build
\* returned; for an unknown, queued, running or failed task it answers 404.
C21_DownloadOnlyWhenCompleted ==
    reply.op = "download" =>
        /\ reply.found =>
              /\ reply.status_at = "completed"
              /\ reply.built_at = Returned(reply.data)
              /\ reply.filename = TaskFilename
        /\ reply.status_at \in {"none", "queued", "running", "failed"}
              => ~reply.found

\* the two-byte archive of a completed task is handed out
C21_Witness ==
    /\ reply.op = "download"
    /\ reply.found
    /\ reply.data = <<"a", "b">>

\* C23: a task whose build raised an origin error ends in status failed with
\* exactly the raised message as its error, has no payload in file_storage,
\* and its record is returned by get_task_status.
C23_FailedTaskKeepsError ==
    \A id \in TaskIds :
        (build_outcome[id].some /\ build_outcome[id].kind = "raised") =>
            /\ task_info[id].status = "failed"
            /\ task_info[id].error = Some(build_outcome[id].val)
            /\ ~task_info[id].result.some
            /\ id \notin DOMAIN file_storage
            /\ id \notin reaped =>
                  /\ LookupTask(id).found
                  /\ LookupTask(id).record = task_info[id]

\* the status of a failed task was asked and its record was returned
C23_Witness ==
    /\ reply.op = "status"
    /\ reply.found
    /\ reply.record.status = "failed"
    /\ reply.record.error = Some(MsgNotFound)
    /\ build_outcome[reply.id] = RaisedError(MsgNotFound)

\* C33: between steps of the event loop, no id is in both running_tasks and
\* completed_tasks; file_storage holds a payload only for an id that is in
\* completed_tasks with status completed; and a task with status completed
\* has its record and payload until the reaper removes both.
C33_TaskBookkeeping ==
    /\ running_tasks \cap completed_tasks = {}
    /\ \A id \in DOMAIN file_storage :
          id \in completed_tasks /\ task_info[id].status = "completed"
    /\ \A id \in TaskIds :
          task_info[id].status = "completed" =>
              IF id \in reaped
              THEN id \notin completed_tasks /\ id \notin DOMAIN file_storage
              ELSE id \in completed_tasks /\ id \in DOMAIN file_storage

\* one completed task holds its payload, another has been reaped, record
\* and payload
C33_Witness ==
    /\ task_info[1].status = "completed"
    /\ 1 \in reaped
    /\ task_info[2].status = "completed"
    /\ 2 \in completed_tasks
    /\ 2 \in DOMAIN file_storage

----------------------------------------------------------------------------
(* Claims on the reaper, the credential and the filename *)

\* the periodic pass of the program's background cleanup has just ended
PeriodicPassEnds ==
    \E l \in LoopIds : loops[l] = "pass" /\ loops'[l] = "sleeping"

\* C22: the program's periodic background pass leaves no task record older
\* than the retention window, in completed_tasks or in file_storage, and no
\* step removes a record that is not older than the window.
C22_ReaperRemovesOldRecords ==
    [][/\ PeriodicPassEnds =>
             /\ TooOld' = {}
             /\ \A id \in TooOld : id \notin DOMAIN file_storage'
       /\ \A id \in completed_tasks \ completed_tasks' : id \in TooOld]_vars

\* what cleanup_old_tasks would do if it were run: a step that removes
\* records removes exactly the too old ones, with their payloads
PassOfCleanupOldTasksRemovesTheOld ==
    [][reaped' # reaped =>
          /\ completed_tasks \ completed_tasks' = TooOld
          /\ TooOld' = {}
          /\ \A id \in TooOld : id \notin DOMAIN file_storage']_vars

\* a header the route reads a token from: "Bearer " and then a token
IsBearerHeader(h) ==
    /\ h.some
    /\ Len(h.val) >= 2
    /\ h.val[1] = "Bearer "
    /\ \A i \in 2..Len(h.val) : h.val[i] # "Bearer "

\* the credential the request itself carries: the header's token, else the
\* query parameter, else none
PerRequestCredential ==
    IF IsBearerHeader(authorization) THEN Some(Tail(authorization.val))
    ELSE IF token.some /\ token.val # <<>> THEN token
    ELSE Missing

\* headers in which "Bearer " is not followed by a token, or occurs again
\* inside the token, are left aside
HeaderIsPlain ==
    authorization.some =>
        \/ IsBearerHeader(authorization)
        \/ \A i \in 1..Len(authorization.val) :
               authorization.val[i] # "Bearer "

SegmentOrRepo(path, repo) ==
    LET chars == {i \in 1..Len(path) : path[i] # "/"}
        last_char == CHOOSE i \in chars : \A j \in chars : j <= i
        starts == {i \in 1..last_char :
                      \A j \in i..last_char : path[j] # "/"}
        first_char == CHOOSE i \in starts : \A j \in starts : i <= j
    IN  IF chars = {} THEN repo ELSE SubSeq(path, first_char, last_char)

RECURSIVE Digits(_)
Digits(n) ==
    LET d == <<"0", "1", "2", "3", "4", "5", "6", "7", "8", "9">>
    IN  IF n < 10 THEN <<d[n + 1]>>
        ELSE Digits(n \div 10) \o <<d[(n % 10) + 1]>>

\* C25: the filename is {owner}_{repo}_{segment}_{unixTimestamp}.zip, the
\* segment being the last segment of the requested path, or the repository
\* name when the path is empty or only slashes.
C25_FilenameConvention ==
    filename.some =>
        filename.val = OwnerName \o <<"_">> \o RepoName \o <<"_">>
                       \o SegmentOrRepo(base_folder, RepoName)
                       \o <<"_">> \o Digits(clock) \o <<".zip">>

\* the same without the timestamp
FilenameWithoutTimestamp ==
    filename.some =>
        filename.val = OwnerName \o <<"_">> \o RepoName \o <<"_">>
                       \o SegmentOrRepo(base_folder, RepoName) \o <<".zip">>
----------------------------------------------------------------------------
(* Claims on the CleanupManager *)

OneLoopAndFlagMatchesTask ==
    /\ Cardinality(Active) <= 1
    /\ is_running <=> (cleanup_task # 0 /\ cleanup_task \in Active)

\* C34: under every interleaving of start() and stop(), a start() during a
\* suspended stop() included, at most one cleanup loop is active, and
\* is_running is true exactly when _cleanup_task refers to the active loop.
C34_OneActiveLoop == OneLoopAndFlagMatchesTask

\* the same as long as no start() has run while a stop() was suspended
OneActiveLoopUnlessOverlapped == ~overlapped => OneLoopAndFlagMatchesTask

\* the call made last is a stop(), it has returned, and no call is suspended
StopReturnedLast ==
    /\ last_call = Called("stop", 0)
    /\ stopping = {}

\* C35: once the last of a sequence of start() and stop() calls is a stop()
\* that has returned, every loop task ever created has been cancelled or has
\* exited: none is running or will run another pass.
C35_NoLoopAfterStop == StopReturnedLast => Active = {}

\* the same as long as no start() has run while a stop() was suspended
NoLoopAfterStopUnlessOverlapped ==
    (~overlapped /\ StopReturnedLast) => Active = {}

\* a pass begins only while is_running is set
PassBeginsOnlyWhileRunning ==
    [][\A l \in LoopIds :
          (loops[l] # "pass" /\ loops'[l] = "pass") => is_running]_vars

====
